---- MODULE Spec2Model ----
(***************************************************************************)
(* Verification model of the chess game replayer:                          *)
(*   - ChessBoard / ChessGamePlayer (board.rs, pgn.rs): the move-replay    *)
(*     state machine and the move applier;                                 *)
(*   - FenVisitor / pgn_to_fen_at_move (fen.rs): the position translator;  *)
(*   - StockfishEngineInternal (engine.rs): the engine supervisor and the  *)
(*     streaming search session.                                           *)
(* Three specifications share the module: Spec (replay), FenSpec           *)
(* (position translator) and EngineSpec / EngineFairSpec (engine).         *)
(***************************************************************************)
EXTENDS Integers, Sequences, FiniteSets, TLC

VARIABLES
    \* ---- ChessGamePlayer (pgn.rs:8-14)
    board,          \* ChessGamePlayer.board.grid : row 0..7 -> col 0..7 -> Piece
    moves,          \* ChessGamePlayer.moves
    position,       \* ChessGamePlayer.position (shakmaty::Chess)
    current_move,   \* ChessGamePlayer.current_move
    headers,        \* ChessGamePlayer.headers
    lastCall,       \* the public operation called last
    ret,            \* its return value
    walk,           \* progress of a "next xN then previous xN" walk from ply 0
    \* ---- pgn_to_fen_at_move and its FenVisitor (fen.rs)
    fen_pgn,        \* argument pgn, as the reader parses it
    fen_move_number,\* argument move_number
    fen_pc,         \* where pgn_to_fen_at_move stands
    fen_idx,        \* headers / SANs of the game the reader has delivered
    fv,             \* the FenVisitor: pos, final_fen, move_count, target_move
    fen_result,     \* the Option<String> returned
    \* ---- StockfishEngineInternal and its threads (engine.rs)
    output_buffer,  \* StockfishEngineInternal.output_buffer (lines, oldest first)
    cancel_search,  \* StockfishEngineInternal.cancel_search
    current_best_move,   \* StockfishEngineInternal.current_best_move
    current_evaluation,  \* StockfishEngineInternal.current_evaluation
    stdin,          \* the command lines written to the subprocess and not yet read by it
    engine,         \* the subprocess: searches started, search under way, lines emitted
    pipe,           \* lines the subprocess has written that the reader has not read
    fg,             \* the foreground caller: the call under way and its arguments
    calls,          \* how many find_best_move / cancel_search / get_output calls were made
    task,           \* per session: the polling thread's locals and position
    chan,           \* per session: the updates sent on update_sender, in order
    rx_alive,       \* per session: whether the channel's receiver still exists
    obs,            \* per session: what was observed of it (cancellation, answer, last line scanned)
    \* ---- the supervisor's lifetime: new and Drop (engine.rs)
    running,        \* StockfishEngineInternal.running
    reader_thread,  \* the reader thread: "reading" or "exited"
    process,        \* the subprocess: alive, hung, exited or killed; lines written
    life,           \* where new / Drop stands, what it sent and waited for
    delivered,      \* the results of the wait_for_response calls, in order
    \* ---- the locks of StockfishEngineInternal and the threads that take them
    mutex,          \* per Mutex of the struct: the thread holding it, "" when free
    thread,         \* per thread: the steps it still has to take, whether it sleeps
    wire            \* the writes the subprocess's stdin has received, in order

replayVars == <<board, moves, position, current_move, headers, lastCall, ret, walk>>

fenVars == <<fen_pgn, fen_move_number, fen_pc, fen_idx, fv, fen_result>>

engineVars == <<output_buffer, cancel_search, current_best_move, current_evaluation,
                stdin, engine, pipe, fg, calls, task, chan, rx_alive, obs>>

lifeVars == <<running, reader_thread, process, life, delivered>>

lockVars == <<mutex, thread, wire>>

vars == <<replayVars, lockVars, fenVars, engineVars, lifeVars, lockVars>>

----------------------------------------------------------------------------
\* Bounds of the model.

\* Lines the subprocess has written when a scan of them starts.
MaxScanLines == 2

\* Longest game (in plies) that is loaded or translated.
MaxPly == 10

\* find_best_move calls (search sessions) made.
MaxSessions == 2

\* cancel_search calls made.
MaxCancels == 1

\* get_output calls made.
MaxDrains == 1

\* Progress lines the subprocess emits during one search.
MaxInfo == 1

\* Polls counted after a cancellation (the count stops there).
MaxCountedPolls == 3

----------------------------------------------------------------------------
\* board.rs: pieces and the initial board.

Files == 0..7
Ranks == 0..7

Piece_new(piece_type, colour) == [piece_type |-> piece_type, colour |-> colour]

NoPiece == Piece_new("None", "None")

back_rank_types == <<"Rook", "Knight", "Bishop", "Queen", "King", "Bishop", "Knight", "Rook">>

get_back_rank(colour) == [c \in Files |-> Piece_new(back_rank_types[c + 1], colour)]

get_pawn_rank(colour) == [c \in Files |-> Piece_new("Pawn", colour)]

get_empty_rank == [c \in Files |-> NoPiece]

\* ChessBoard::new: the rows are pushed in this order, row 0 first.
ChessBoard_new ==
    [r \in 0..7 |->
        CASE r = 0 -> get_back_rank("Black")
          [] r = 1 -> get_pawn_rank("Black")
          [] r \in 2..5 -> get_empty_rank
          [] r = 6 -> get_pawn_rank("White")
          [] r = 7 -> get_back_rank("White")]

----------------------------------------------------------------------------
\* shakmaty squares and moves, as the parser hands them over.

\* Square: file 0..7 = a..h, rank 0..7 = rank '1'..'8'.
Sq(f, r) == [file |-> f, rank |-> r]

Normal(role, from, to, capture, promotion) ==
    [tag |-> "Normal", role |-> role, from |-> from, to |-> to,
     capture |-> capture, promotion |-> promotion]

Castle(king, rook) == [tag |-> "Castle", king |-> king, rook |-> rook]

EnPassant(from, to) == [tag |-> "EnPassant", from |-> from, to |-> to]

\* Quiet move of a piece.
Mv(role, from, to) == Normal(role, from, to, "None", "None")

\* Capture.
Cx(role, from, to, capture) == Normal(role, from, to, capture, "None")

----------------------------------------------------------------------------
\* pgn.rs: the move applier.

\* square_to_board_coord: x is the rank index, y the file index.
square_to_board_coord(square) == [x |-> square.rank, y |-> square.file]

Point2(x, y) == [x |-> x, y |-> y]

\* move_piece: the two assignments of the code, in order.
move_piece_keep_colour(grid, from, to) ==
    LET from_row == 7 - from.x
        from_col == from.y
        to_row == 7 - to.x
        to_col == to.y
        g1 == [grid EXCEPT ![to_row][to_col] = grid[from_row][from_col]]
    IN  [g1 EXCEPT ![from_row][from_col] = Piece_new("None", grid[from_row][from_col].colour)]

move_piece(grid, from, to) ==
    LET from_row == 7 - from.x
        from_col == from.y
        to_row == 7 - to.x
        to_col == to.y
        g1 == [grid EXCEPT ![to_row][to_col] = grid[from_row][from_col]]
    IN  [g1 EXCEPT ![from_row][from_col] = Piece_new("None", "None")]

promote_piece(grid, coord, piece_type, color) ==
    LET row == 7 - coord.x
        col == coord.y
    IN  [grid EXCEPT ![row][col] = Piece_new(piece_type, color)]

\* remove_piece takes (file, rank).
remove_piece(grid, coord) ==
    LET row == 7 - coord[2]
        col == coord[1]
    IN  [grid EXCEPT ![row][col] = Piece_new("None", "None")]

\* The promotion roles the match of apply_move_to_board accepts; any other
\* role panics.
PromotionRoles == {"Queen", "Rook", "Bishop", "Knight"}

\* Whether apply_move_to_board panics on the move.
apply_panics(mv) ==
    \/ mv.tag \notin {"Normal", "Castle", "EnPassant"}
    \/ mv.tag = "Normal" /\ mv.promotion # "None" /\ mv.promotion \notin PromotionRoles

apply_normal_dest_colour(grid, mv) ==
    LET from_coord == square_to_board_coord(mv.from)
        to_coord == square_to_board_coord(mv.to)
        piece_color == grid[7 - to_coord.x][to_coord.y].colour
        g1 == move_piece(grid, from_coord, to_coord)
    IN  IF mv.promotion # "None"
        THEN promote_piece(g1, to_coord, mv.promotion, piece_color)
        ELSE g1

apply_normal(grid, mv) ==
    LET from_coord == square_to_board_coord(mv.from)
        to_coord == square_to_board_coord(mv.to)
        piece_color == grid[7 - from_coord.x][from_coord.y].colour
        g1 == move_piece(grid, from_coord, to_coord)
    IN  IF mv.promotion # "None"
        THEN promote_piece(g1, to_coord, mv.promotion, piece_color)
        ELSE g1

apply_castle_reversed(grid, mv) ==
    LET is_kingside == mv.rook.file < mv.king.file
        rank == mv.king.rank
    IN  IF is_kingside
        THEN move_piece(move_piece(grid, Point2(rank, 4), Point2(rank, 6)),
                        Point2(rank, 7), Point2(rank, 5))
        ELSE move_piece(move_piece(grid, Point2(rank, 4), Point2(rank, 2)),
                        Point2(rank, 0), Point2(rank, 3))

apply_castle(grid, mv) ==
    LET is_kingside == mv.rook.file > mv.king.file
        rank == mv.king.rank
    IN  IF is_kingside
        THEN move_piece(move_piece(grid, Point2(rank, 4), Point2(rank, 6)),
                        Point2(rank, 7), Point2(rank, 5))
        ELSE move_piece(move_piece(grid, Point2(rank, 4), Point2(rank, 2)),
                        Point2(rank, 0), Point2(rank, 3))

\* The captured rank is computed from the destination rank, the direction
\* chosen by the source rank (pgn.rs:152-156).
apply_en_passant(grid, mv) ==
    LET from_coord == square_to_board_coord(mv.from)
        to_coord == square_to_board_coord(mv.to)
        g1 == move_piece(grid, from_coord, to_coord)
        captured_rank == IF mv.from.rank > 3 THEN mv.to.rank + 1 ELSE mv.to.rank - 1
    IN  remove_piece(g1, <<mv.to.file, captured_rank>>)

apply_move_to_board(grid, mv) ==
    CASE mv.tag = "Normal" -> apply_normal(grid, mv)
      [] mv.tag = "Castle" -> apply_castle(grid, mv)
      [] mv.tag = "EnPassant" -> apply_en_passant(grid, mv)

----------------------------------------------------------------------------
\* shakmaty::Chess, the position type the player and the FEN visitor drive
\* with play_unchecked. Options are sequences: <<>> is None, <<v>> is Some(v).

None == <<>>
Some(v) == <<v>>

Other(colour) == IF colour = "White" THEN "Black" ELSE "White"

\* Chess::default(): squares indexed rank 0..7 (rank '1' first), file 0..7.
Chess_default ==
    [board |-> [r \in Ranks |->
                    CASE r = 0 -> get_back_rank("White")
                      [] r = 1 -> get_pawn_rank("White")
                      [] r \in 2..5 -> get_empty_rank
                      [] r = 6 -> get_pawn_rank("Black")
                      [] r = 7 -> get_back_rank("Black")],
     turn |-> "White",
     castles |-> {Sq(0, 0), Sq(7, 0), Sq(0, 7), Sq(7, 7)},
     ep_square |-> None,
     halfmoves |-> 0,
     fullmoves |-> 1]

set_piece_at(b, sq, piece) == [b EXCEPT ![sq.rank][sq.file] = piece]

discard_piece_at(b, sq) == [b EXCEPT ![sq.rank][sq.file] = NoPiece]

back_rank_of(colour) == IF colour = "White" THEN 0 ELSE 7

discard_color(castles, colour) == {sq \in castles : sq.rank # back_rank_of(colour)}

is_zeroing(m) ==
    CASE m.tag = "Normal" -> m.role = "Pawn" \/ m.capture # "None"
      [] m.tag = "Castle" -> FALSE
      [] m.tag = "EnPassant" -> TRUE

\* Position::play_unchecked.
play_unchecked(pos, m) ==
    LET color == pos.turn
        halfmoves == IF is_zeroing(m) THEN 0 ELSE pos.halfmoves + 1
        ep == IF m.tag = "Normal" /\ m.role = "Pawn"
                 /\ m.to.file = m.from.file
              THEN IF m.to.rank - m.from.rank = 2 /\ m.from.rank = 1
                   THEN Some(Sq(m.from.file, 2))
                   ELSE IF m.from.rank - m.to.rank = 2 /\ m.from.rank = 6
                        THEN Some(Sq(m.from.file, 5))
                        ELSE None
              ELSE None
        castles ==
            CASE m.tag = "Normal" ->
                    LET c1 == IF m.role = "King" THEN discard_color(pos.castles, color)
                              ELSE IF m.role = "Rook" THEN pos.castles \ {m.from}
                              ELSE pos.castles
                    IN  IF m.capture = "Rook" THEN c1 \ {m.to} ELSE c1
              [] m.tag = "Castle" -> discard_color(pos.castles, color)
              [] m.tag = "EnPassant" -> pos.castles
        b ==
            CASE m.tag = "Normal" ->
                    LET promoted == IF m.promotion # "None" THEN m.promotion ELSE m.role
                    IN  set_piece_at(discard_piece_at(pos.board, m.from), m.to,
                                     Piece_new(promoted, color))
              [] m.tag = "Castle" ->
                    LET queen_side == m.rook.file < m.king.file
                        rook_to == IF queen_side THEN 3 ELSE 5
                        king_to == IF queen_side THEN 2 ELSE 6
                        b1 == discard_piece_at(discard_piece_at(pos.board, m.king), m.rook)
                        b2 == set_piece_at(b1, Sq(rook_to, m.rook.rank), Piece_new("Rook", color))
                    IN  set_piece_at(b2, Sq(king_to, m.king.rank), Piece_new("King", color))
              [] m.tag = "EnPassant" ->
                    LET b1 == discard_piece_at(pos.board, Sq(m.to.file, m.from.rank))
                    IN  set_piece_at(discard_piece_at(b1, m.from), m.to,
                                     Piece_new("Pawn", color))
    IN  [board |-> b,
         turn |-> Other(color),
         castles |-> castles,
         ep_square |-> ep,
         halfmoves |-> halfmoves,
         fullmoves |-> IF color = "Black" THEN pos.fullmoves + 1 ELSE pos.fullmoves]

----------------------------------------------------------------------------
\* The games the external PGN parser supplies: every SAN of these resolves
\* (san.to_move succeeds) to the move listed. Squares are Sq(file, rank).

\* 1. e4 e5 2. Nf3
GameOpen ==
    <<Mv("Pawn", Sq(4, 1), Sq(4, 3)), Mv("Pawn", Sq(4, 6), Sq(4, 4)),
      Mv("Knight", Sq(6, 0), Sq(5, 2))>>

\* 1. e4 a6 2. e5 d5 3. exd6 cxd6
GameEpWhite ==
    <<Mv("Pawn", Sq(4, 1), Sq(4, 3)), Mv("Pawn", Sq(0, 6), Sq(0, 5)),
      Mv("Pawn", Sq(4, 3), Sq(4, 4)), Mv("Pawn", Sq(3, 6), Sq(3, 4)),
      EnPassant(Sq(4, 4), Sq(3, 5)), Cx("Pawn", Sq(2, 6), Sq(3, 5), "Pawn")>>

\* 1. a3 e5 2. a4 e4 3. d4 exd3 4. cxd3
GameEpBlack ==
    <<Mv("Pawn", Sq(0, 1), Sq(0, 2)), Mv("Pawn", Sq(4, 6), Sq(4, 4)),
      Mv("Pawn", Sq(0, 2), Sq(0, 3)), Mv("Pawn", Sq(4, 4), Sq(4, 3)),
      Mv("Pawn", Sq(3, 1), Sq(3, 3)), EnPassant(Sq(4, 3), Sq(3, 2)),
      Cx("Pawn", Sq(2, 1), Sq(3, 2), "Pawn")>>

\* 1. e4 e5 2. Nf3 Nf6 3. Bc4 Bc5 4. O-O O-O
GameCastleKing ==
    <<Mv("Pawn", Sq(4, 1), Sq(4, 3)), Mv("Pawn", Sq(4, 6), Sq(4, 4)),
      Mv("Knight", Sq(6, 0), Sq(5, 2)), Mv("Knight", Sq(6, 7), Sq(5, 5)),
      Mv("Bishop", Sq(5, 0), Sq(2, 3)), Mv("Bishop", Sq(5, 7), Sq(2, 4)),
      Castle(Sq(4, 0), Sq(7, 0)), Castle(Sq(4, 7), Sq(7, 7))>>

\* 1. d4 d5 2. Nc3 Nc6 3. Bf4 Bf5 4. Qd2 Qd7 5. O-O-O O-O-O
GameCastleQueen ==
    <<Mv("Pawn", Sq(3, 1), Sq(3, 3)), Mv("Pawn", Sq(3, 6), Sq(3, 4)),
      Mv("Knight", Sq(1, 0), Sq(2, 2)), Mv("Knight", Sq(1, 7), Sq(2, 5)),
      Mv("Bishop", Sq(2, 0), Sq(5, 3)), Mv("Bishop", Sq(2, 7), Sq(5, 4)),
      Mv("Queen", Sq(3, 0), Sq(3, 1)), Mv("Queen", Sq(3, 7), Sq(3, 6)),
      Castle(Sq(4, 0), Sq(0, 0)), Castle(Sq(4, 7), Sq(0, 7))>>

\* 1. h4 g5 2. hxg5 h6 3. gxh6 a6 4. h7 a5 5. hxg8=Q Rxg8
GamePromote ==
    <<Mv("Pawn", Sq(7, 1), Sq(7, 3)), Mv("Pawn", Sq(6, 6), Sq(6, 4)),
      Cx("Pawn", Sq(7, 3), Sq(6, 4), "Pawn"), Mv("Pawn", Sq(7, 6), Sq(7, 5)),
      Cx("Pawn", Sq(6, 4), Sq(7, 5), "Pawn"), Mv("Pawn", Sq(0, 6), Sq(0, 5)),
      Mv("Pawn", Sq(7, 5), Sq(7, 6)), Mv("Pawn", Sq(0, 5), Sq(0, 4)),
      Normal("Pawn", Sq(7, 6), Sq(6, 7), "Knight", "Queen"),
      Cx("Rook", Sq(7, 7), Sq(6, 7), "Queen")>>

BaseGames == {GameOpen, GameEpWhite, GameEpBlack, GameCastleKing, GameCastleQueen,
              GamePromote}

Min(a, b) == IF a < b THEN a ELSE b

\* Every game cut after any of its plies is a game too.
Games == UNION {{SubSeq(g, 1, n) : n \in 0..Min(Len(g), MaxPly)} : g \in BaseGames}

\* Header lists of the loaded games.
HeaderLists == {<<>>, <<<<"White", "boolean0101">>, <<"Black", "joks7777">>>>}

\* What BufferedReader::read_game gives load_pgn for a PGN text: a game
\* (Ok(Some)), no game (Ok(None)) or a read error (Err).
PgnInputs ==
    {[outcome |-> "game", moves |-> g, headers |-> h] : g \in Games, h \in HeaderLists}
    \cup {[outcome |-> o, moves |-> <<>>, headers |-> <<>>] : o \in {"none", "err"}}

----------------------------------------------------------------------------
\* pgn.rs: ChessGamePlayer. The operations are functions of the player
\* record p; the actions below store their result.

\* ChessGamePlayer::new(board)
ChessGamePlayer_new ==
    [board |-> ChessBoard_new, moves |-> <<>>, position |-> Chess_default,
     current_move |-> 0, headers |-> <<>>]

reset(p) ==
    [p EXCEPT !.position = Chess_default, !.current_move = 0, !.board = ChessBoard_new]

reset_internal(p) ==
    [p EXCEPT !.position = Chess_default, !.board = ChessBoard_new]

\* The body of next_move after its guard; moves[current_move] is the
\* (current_move + 1)-th element of the sequence.
play_and_apply(p, mv) ==
    [p EXCEPT !.position = play_unchecked(p.position, mv),
              !.board = apply_move_to_board(p.board, mv)]

next_move_no_apply(p) ==
    IF p.current_move >= Len(p.moves)
    THEN [p |-> p, ret |-> FALSE]
    ELSE LET mv == p.moves[p.current_move + 1]
             p1 == [p EXCEPT !.position = play_unchecked(p.position, mv)]
         IN  [p |-> [p1 EXCEPT !.current_move = p.current_move + 1], ret |-> TRUE]

next_move(p) ==
    IF p.current_move >= Len(p.moves)
    THEN [p |-> p, ret |-> FALSE]
    ELSE LET mv == p.moves[p.current_move + 1]
             p1 == play_and_apply(p, mv)
         IN  [p |-> [p1 EXCEPT !.current_move = p.current_move + 1], ret |-> TRUE]

\* The loop "for i in 0..self.current_move" of previous_move, from index i.
RECURSIVE replay_loop(_, _)
replay_loop(p, i) ==
    IF i >= p.current_move
    THEN p
    ELSE replay_loop(play_and_apply(p, p.moves[i + 1]), i + 1)

previous_move_no_reset(p) ==
    IF p.current_move = 0
    THEN [p |-> p, ret |-> FALSE]
    ELSE LET p1 == [p EXCEPT !.current_move = p.current_move - 1]
         IN  [p |-> replay_loop(p1, 0), ret |-> TRUE]

previous_move_no_guard(p) ==
    LET p1 == [p EXCEPT !.current_move = IF @ = 0 THEN 0 ELSE @ - 1]
        p2 == reset_internal(p1)
    IN  [p |-> replay_loop(p2, 0), ret |-> TRUE]

previous_move_replay_one_more(p) ==
    IF p.current_move = 0
    THEN [p |-> p, ret |-> FALSE]
    ELSE LET p2 == reset_internal(p)
         IN  [p |-> [replay_loop(p2, 0) EXCEPT !.current_move = p.current_move - 1],
              ret |-> TRUE]

previous_move(p) ==
    IF p.current_move = 0
    THEN [p |-> p, ret |-> FALSE]
    ELSE LET p1 == [p EXCEPT !.current_move = p.current_move - 1]
             p2 == reset_internal(p1)
         IN  [p |-> replay_loop(p2, 0), ret |-> TRUE]

load_pgn_no_reset(p, pgn) ==
    IF pgn.outcome = "game"
    THEN [p |-> [p EXCEPT !.moves = pgn.moves, !.headers = pgn.headers], ret |-> TRUE]
    ELSE [p |-> p, ret |-> FALSE]

load_pgn_reset_on_failure(p, pgn) ==
    IF pgn.outcome = "game"
    THEN [p |-> reset([p EXCEPT !.moves = pgn.moves, !.headers = pgn.headers]),
          ret |-> TRUE]
    ELSE [p |-> reset(p), ret |-> FALSE]

load_pgn(p, pgn) ==
    IF pgn.outcome = "game"
    THEN [p |-> reset([p EXCEPT !.moves = pgn.moves, !.headers = pgn.headers]),
          ret |-> TRUE]
    ELSE [p |-> p, ret |-> FALSE]

\* main.rs GameState::go_to_end: reset_position, then next_move total_moves
\* times.
RECURSIVE next_times(_, _)
next_times(p, n) == IF n = 0 THEN p ELSE next_times(next_move(p).p, n - 1)

go_to_end_one_short(p) ==
    LET p1 == reset(p)
        total_moves == Len(p1.moves)
    IN  next_times(p1, IF total_moves = 0 THEN 0 ELSE total_moves - 1)

go_to_end(p) ==
    LET p1 == reset(p)
        total_moves == Len(p1.moves)
    IN  next_times(p1, total_moves)

----------------------------------------------------------------------------
\* The replay state machine: one action per public operation.

player ==
    [board |-> board, moves |-> moves, position |-> position,
     current_move |-> current_move, headers |-> headers]

Store(p) ==
    /\ board' = p.board
    /\ moves' = p.moves
    /\ position' = p.position
    /\ current_move' = p.current_move
    /\ headers' = p.headers
    /\ UNCHANGED <<fenVars, engineVars, lifeVars, lockVars>>

\* walk records how far a walk "next() N times, then previous() N times"
\* that started at ply 0 has come; on = FALSE once the calls left the pattern.
WalkStart == [on |-> TRUE, fwd |-> 0, bwd |-> 0]

WalkOff == [on |-> FALSE, fwd |-> 0, bwd |-> 0]

PlayerIdle ==
    /\ board = ChessGamePlayer_new.board
    /\ moves = ChessGamePlayer_new.moves
    /\ position = ChessGamePlayer_new.position
    /\ current_move = ChessGamePlayer_new.current_move
    /\ headers = ChessGamePlayer_new.headers
    /\ lastCall = "new"
    /\ ret = TRUE
    /\ walk = WalkStart

call_load_pgn ==
    \E pgn \in PgnInputs :
        LET r == load_pgn(player, pgn)
        IN  /\ Store(r.p)
            /\ lastCall' = "load_pgn"
            /\ ret' = r.ret
            /\ walk' = IF r.ret THEN WalkStart ELSE walk

call_reset ==
    /\ Store(reset(player))
    /\ lastCall' = "reset"
    /\ ret' = TRUE
    /\ walk' = WalkStart

call_next_move ==
    LET r == next_move(player)
    IN  /\ Store(r.p)
        /\ lastCall' = "next_move"
        /\ ret' = r.ret
        /\ walk' = IF ~r.ret THEN WalkOff
                   ELSE IF current_move = 0 THEN [on |-> TRUE, fwd |-> 1, bwd |-> 0]
                   ELSE IF walk.on /\ walk.bwd = 0 THEN [walk EXCEPT !.fwd = @ + 1]
                   ELSE WalkOff

call_previous_move ==
    LET r == previous_move(player)
    IN  /\ Store(r.p)
        /\ lastCall' = "previous_move"
        /\ ret' = r.ret
        /\ walk' = IF r.ret /\ walk.on /\ walk.fwd = Len(moves) /\ walk.bwd < walk.fwd
                   THEN [walk EXCEPT !.bwd = @ + 1]
                   ELSE WalkOff

call_go_to_end ==
    /\ Store(go_to_end(player))
    /\ lastCall' = "go_to_end"
    /\ ret' = TRUE
    /\ walk' = [on |-> TRUE, fwd |-> Len(moves), bwd |-> 0]

NextReplay ==
    \/ call_load_pgn
    \/ call_reset
    \/ call_next_move
    \/ call_previous_move
    \/ call_go_to_end


----------------------------------------------------------------------------
\* fen.rs: Fen::from_position(pos, EnPassantMode::Legal).to_string().

FileChars == "abcdefgh"

square_name(sq) == SubSeq(FileChars, sq.file + 1, sq.file + 1) \o ToString(sq.rank + 1)

piece_char(piece) ==
    IF piece.colour = "White"
    THEN CASE piece.piece_type = "King" -> "K" [] piece.piece_type = "Queen" -> "Q"
           [] piece.piece_type = "Rook" -> "R" [] piece.piece_type = "Bishop" -> "B"
           [] piece.piece_type = "Knight" -> "N" [] piece.piece_type = "Pawn" -> "P"
    ELSE CASE piece.piece_type = "King" -> "k" [] piece.piece_type = "Queen" -> "q"
           [] piece.piece_type = "Rook" -> "r" [] piece.piece_type = "Bishop" -> "b"
           [] piece.piece_type = "Knight" -> "n" [] piece.piece_type = "Pawn" -> "p"

\* One rank of the placement field from file f on, after `empty` empty cells.
RECURSIVE rank_fen(_, _, _)
rank_fen(row, f, empty) ==
    LET gap == IF empty > 0 THEN ToString(empty) ELSE ""
    IN  IF f > 7 THEN gap
        ELSE IF row[f] = NoPiece THEN rank_fen(row, f + 1, empty + 1)
        ELSE gap \o piece_char(row[f]) \o rank_fen(row, f + 1, 0)

\* The placement field: rank 8 first, ranks separated by "/".
RECURSIVE board_fen_from(_, _)
board_fen_from(b, r) ==
    IF r = 0 THEN rank_fen(b[0], 0, 0)
    ELSE rank_fen(b[r], 0, 0) \o "/" \o board_fen_from(b, r - 1)

board_fen(b) == board_fen_from(b, 7)

castling_fen(castles) ==
    LET s == (IF Sq(7, 0) \in castles THEN "K" ELSE "")
             \o (IF Sq(0, 0) \in castles THEN "Q" ELSE "")
             \o (IF Sq(7, 7) \in castles THEN "k" ELSE "")
             \o (IF Sq(0, 7) \in castles THEN "q" ELSE "")
    IN  IF s = "" THEN "-" ELSE s

always_ep_square(pos) == pos.ep_square

\* EnPassantMode::Legal: the en-passant square is given only when the side
\* to move has a pawn that can capture onto it (a pawn next to the pawn that
\* was pushed). None of the games above pins such a pawn.
legal_ep_square(pos) ==
    IF pos.ep_square = None THEN None
    ELSE LET sq == pos.ep_square[1]
             r == IF pos.turn = "White" THEN sq.rank - 1 ELSE sq.rank + 1
         IN  IF \E f \in Files :
                    /\ f \in {sq.file - 1, sq.file + 1}
                    /\ pos.board[r][f] = Piece_new("Pawn", pos.turn)
             THEN pos.ep_square
             ELSE None

fen_string(pos) ==
    LET ep == legal_ep_square(pos)
    IN  board_fen(pos.board) \o " "
        \o (IF pos.turn = "White" THEN "w" ELSE "b") \o " "
        \o castling_fen(pos.castles) \o " "
        \o (IF ep = None THEN "-" ELSE square_name(ep[1])) \o " "
        \o ToString(pos.halfmoves) \o " "
        \o ToString(pos.fullmoves)

----------------------------------------------------------------------------
\* fen.rs: FenVisitor and pgn_to_fen_at_move, one action per callback of
\* BufferedReader::read_game.

FenVisitor_new ==
    [pos |-> Chess_default, final_fen |-> None, move_count |-> 0 - 1,
     target_move |-> None]

with_target_move(target_move) ==
    [FenVisitor_new EXCEPT !.target_move = Some(target_move)]

begin_game(v) ==
    [v EXCEPT !.pos = Chess_default, !.final_fen = None, !.move_count = 0]

\* header(): only a "FEN" key changes the visitor; the games carry none.
header(v, kv) == v

\* san(): m is the move the SAN resolves to (to_move succeeded).
san(v, m) ==
    LET count == v.move_count + 1
        pos == play_unchecked(v.pos, m)
    IN  [v EXCEPT !.move_count = count,
                  !.pos = pos,
                  !.final_fen = IF v.target_move # None /\ count = v.target_move[1]
                                THEN Some(fen_string(pos))
                                ELSE @]

end_game(v) ==
    IF v.final_fen = None
    THEN [v EXCEPT !.final_fen = Some(fen_string(v.pos))]
    ELSE v

\* No translation under way.
FenIdle ==
    /\ fen_pgn = [outcome |-> "none", moves |-> <<>>, headers |-> <<>>]
    /\ fen_move_number = 0
    /\ fen_pc = "idle"
    /\ fen_idx = 0
    /\ fv = FenVisitor_new
    /\ fen_result = None

\* pgn_to_fen_at_move(pgn, move_number) has been entered: the visitor is
\* built, the reader has not been driven yet.
InitFen ==
    /\ PlayerIdle
    /\ fen_pgn \in PgnInputs
    /\ fen_move_number \in 0..(MaxPly + 1)
    /\ fen_pc = "read_game"
    /\ fen_idx = 0
    /\ fv = with_target_move(fen_move_number)
    /\ fen_result = None

\* read_game finds a game and calls begin_game.
fen_begin_game ==
    /\ fen_pc = "read_game"
    /\ fen_pgn.outcome = "game"
    /\ fv' = begin_game(fv)
    /\ fen_pc' = "headers"
    /\ fen_idx' = 0
    /\ UNCHANGED <<fen_pgn, fen_move_number, fen_result, replayVars, lockVars, engineVars, lifeVars>>

\* read_game finds no game (Ok(None)) or fails (Err): no callback runs.
fen_no_game ==
    /\ fen_pc = "read_game"
    /\ fen_pgn.outcome # "game"
    /\ fen_pc' = "returning"
    /\ UNCHANGED <<fen_pgn, fen_move_number, fen_idx, fv, fen_result, replayVars, lockVars, engineVars, lifeVars>>

fen_header ==
    /\ fen_pc = "headers"
    /\ IF fen_idx < Len(fen_pgn.headers)
       THEN /\ fv' = header(fv, fen_pgn.headers[fen_idx + 1])
            /\ fen_idx' = fen_idx + 1
            /\ fen_pc' = fen_pc
       ELSE /\ fv' = fv
            /\ fen_idx' = 0
            /\ fen_pc' = "sans"
    /\ UNCHANGED <<fen_pgn, fen_move_number, fen_result, replayVars, lockVars, engineVars, lifeVars>>

fen_san ==
    /\ fen_pc = "sans"
    /\ fen_idx < Len(fen_pgn.moves)
    /\ fv' = san(fv, fen_pgn.moves[fen_idx + 1])
    /\ fen_idx' = fen_idx + 1
    /\ UNCHANGED <<fen_pgn, fen_move_number, fen_pc, fen_result, replayVars, lockVars, engineVars, lifeVars>>

\* read_game reaches the end of the game and calls end_game.
fen_end_game ==
    /\ fen_pc = "sans"
    /\ fen_idx = Len(fen_pgn.moves)
    /\ fv' = end_game(fv)
    /\ fen_pc' = "returning"
    /\ UNCHANGED <<fen_pgn, fen_move_number, fen_idx, fen_result, replayVars, lockVars, engineVars, lifeVars>>

\* "if reader.read_game(&mut visitor).is_ok() { visitor.end_game() } else { None }"
fen_return ==
    /\ fen_pc = "returning"
    /\ IF fen_pgn.outcome # "err"
       THEN /\ fv' = end_game(fv)
            /\ fen_result' = end_game(fv).final_fen
       ELSE /\ fv' = fv
            /\ fen_result' = None
    /\ fen_pc' = "done"
    /\ UNCHANGED <<fen_pgn, fen_move_number, fen_idx, replayVars, lockVars, engineVars, lifeVars>>

NextFen ==
    \/ fen_begin_game
    \/ fen_no_game
    \/ fen_header
    \/ fen_san
    \/ fen_end_game
    \/ fen_return

----------------------------------------------------------------------------
\* engine.rs: the string operations the polling task uses on an output line.
\* Lines are strings; positions are 0-based as in the code.

\* s[from..] and s[from..to] (byte ranges of ASCII text).
StrFrom(s, from) == SubSeq(s, from + 1, Len(s))
StrRange(s, from, to) == SubSeq(s, from + 1, to)

\* str::find: Some(first position of pat in s) or None.
RECURSIVE find_from(_, _, _)
find_from(s, pat, i) ==
    IF i + Len(pat) > Len(s) THEN None
    ELSE IF StrRange(s, i, i + Len(pat)) = pat THEN Some(i)
    ELSE find_from(s, pat, i + 1)

find(s, pat) == find_from(s, pat, 0)

contains(s, pat) == find(s, pat) # None

\* str::split_whitespace, collected: the words of s from position i on, the
\* word under construction being w.
RECURSIVE words_from(_, _, _)
words_from(s, i, w) ==
    IF i >= Len(s) THEN (IF w = "" THEN <<>> ELSE <<w>>)
    ELSE LET c == StrRange(s, i, i + 1)
         IN  IF c = " "
             THEN (IF w = "" THEN <<>> ELSE <<w>>) \o words_from(s, i + 1, "")
             ELSE words_from(s, i + 1, w \o c)

split_whitespace(s) == words_from(s, 0, "")

\* parts[1] of s.split(pat).collect() when s contains pat: the text between
\* the first occurrence of pat and the next one (or the end of s).
split_part1(s, pat) ==
    LET rest == StrFrom(s, find(s, pat)[1] + Len(pat))
        nxt == find(rest, pat)
    IN  IF nxt = None THEN rest ELSE StrRange(rest, 0, nxt[1])

DigitChars == "0123456789"

\* The value of a decimal digit character, or None.
digit(c) ==
    LET at == find(DigitChars, c)
    IN  IF Len(c) = 1 THEN at ELSE None

I32Max == 2147483647
U8Max == 255

\* The digits of s from position i on, appended to the value acc; None when
\* a character is no digit or the value exceeds max (the parse overflows).
RECURSIVE digits_from(_, _, _, _)
digits_from(s, i, acc, max) ==
    IF i >= Len(s) THEN Some(acc)
    ELSE LET dv == digit(StrRange(s, i, i + 1))
         IN  IF dv = None THEN None
             ELSE IF acc > (max - dv[1]) \div 10 THEN None
             ELSE digits_from(s, i + 1, acc * 10 + dv[1], max)

\* str::parse::<i32>: an optional sign, then at least one digit, in range
\* (the one value -2147483648 is left out: TLC's integers end at
\* 2147483647).
parse_i32(s) ==
    LET sign == IF Len(s) > 0 THEN StrRange(s, 0, 1) ELSE ""
        body == IF sign \in {"-", "+"} THEN StrFrom(s, 1) ELSE s
        mag == IF body = "" THEN None ELSE digits_from(body, 0, 0, I32Max)
    IN  IF mag = None THEN None
        ELSE IF sign = "-" THEN Some(0 - mag[1]) ELSE mag

\* str::parse::<u8>: an optional "+", then at least one digit, at most 255.
parse_u8(s) ==
    LET sign == IF Len(s) > 0 THEN StrRange(s, 0, 1) ELSE ""
        body == IF sign = "+" THEN StrFrom(s, 1) ELSE s
    IN  IF body = "" THEN None ELSE digits_from(body, 0, 0, U8Max)

----------------------------------------------------------------------------
\* engine.rs: what the polling thread does with the new lines of one poll
\* (find_best_move, lines 185-283).

\* The locals a poll starts with.
poll_locals ==
    [found_update |-> FALSE, current_move |-> None, current_eval |-> None,
     current_depth |-> None, is_final |-> FALSE]

\* Lines 208-215: the depth.
parse_depth(st, line) ==
    LET depth_start == find(line, "depth ")
    IN  IF depth_start = None THEN st
        ELSE LET depth_str == StrFrom(line, depth_start[1] + 6)
                 space_pos == find(depth_str, " ")
             IN  IF space_pos = None THEN st
                 ELSE LET d == parse_u8(StrRange(depth_str, 0, space_pos[1]))
                      IN  IF d = None THEN st ELSE [st EXCEPT !.current_depth = d]

\* The first word after the marker, parsed as i32.
score_after(line, marker) ==
    LET score_parts == split_whitespace(split_part1(line, marker))
    IN  IF score_parts = <<>> THEN None ELSE parse_i32(score_parts[1])

\* An f32 is the pair (mant, exp) standing for mant * 2^exp, with
\* |mant| < 2^24, and |mant| >= 2^23 when exp > 0.
F32Significand == 16777216

RECURSIVE Pow2(_)
Pow2(k) == IF k = 0 THEN 1 ELSE 2 * Pow2(k - 1)

f32(mant, exp) == [mant |-> mant, exp |-> exp]

f32_neg(v) == f32(0 - v.mant, v.exp)

RECURSIVE excess_bits(_, _)
\* The least k with a < 2^24 * 2^k.
excess_bits(a, k) ==
    IF a \div Pow2(k) < F32Significand THEN k ELSE excess_bits(a, k + 1)

\* `n as f32` for an i32 n: exact below 2^24, else rounded to 24 significant
\* bits, to nearest and to even on a tie.
as_f32(n) ==
    LET a == IF n < 0 THEN 0 - n ELSE n
        k == excess_bits(a, 0)
        q == a \div Pow2(k)
        r == a % Pow2(k)
        up == k > 0 /\ (2 * r > Pow2(k) \/ (2 * r = Pow2(k) /\ q % 2 = 1))
        q1 == IF up THEN q + 1 ELSE q
        v == IF q1 = F32Significand THEN f32(F32Significand \div 2, k + 1) ELSE f32(q1, k)
    IN  IF n < 0 THEN f32_neg(v) ELSE v

\* Lines 217-239 without the change of sign.
parse_score_no_flip(st, line, is_white_move) ==
    IF contains(line, "score cp ")
    THEN LET score == score_after(line, "score cp ")
         IN  IF score = None THEN st
             ELSE [st EXCEPT !.current_eval = Some(as_f32(score[1]))]
    ELSE IF contains(line, "score mate ")
    THEN LET mate == score_after(line, "score mate ")
         IN  IF mate = None THEN st
             ELSE LET mate_score == IF mate[1] > 0 THEN f32(1000, 0) ELSE f32_neg(f32(1000, 0))
                  IN  [st EXCEPT !.current_eval = Some(mate_score)]
    ELSE st

\* Lines 217-239 with "mate 0" taken as a mate for the side to move.
parse_score_mate_nonnegative(st, line, is_white_move) ==
    IF contains(line, "score cp ")
    THEN LET score == score_after(line, "score cp ")
         IN  IF score = None THEN st
             ELSE LET adjusted_score == IF is_white_move THEN score[1] ELSE 0 - score[1]
                  IN  [st EXCEPT !.current_eval = Some(as_f32(adjusted_score))]
    ELSE IF contains(line, "score mate ")
    THEN LET mate == score_after(line, "score mate ")
         IN  IF mate = None THEN st
             ELSE LET mate_score == IF mate[1] >= 0 THEN f32(1000, 0) ELSE f32_neg(f32(1000, 0))
                  IN  [st EXCEPT !.current_eval =
                        Some(IF is_white_move THEN mate_score ELSE f32_neg(mate_score))]
    ELSE st

\* Lines 217-239: the evaluation, from the side given as is_white_move.
parse_score(st, line, is_white_move) ==
    IF contains(line, "score cp ")
    THEN LET score == score_after(line, "score cp ")
         IN  IF score = None THEN st
             ELSE LET adjusted_score == IF is_white_move THEN score[1] ELSE 0 - score[1]
                  IN  [st EXCEPT !.current_eval = Some(as_f32(adjusted_score))]
    ELSE IF contains(line, "score mate ")
    THEN LET mate == score_after(line, "score mate ")
         IN  IF mate = None THEN st
             ELSE LET mate_score == IF mate[1] > 0 THEN f32(1000, 0) ELSE f32_neg(f32(1000, 0))
                  IN  [st EXCEPT !.current_eval =
                        Some(IF is_white_move THEN mate_score ELSE f32_neg(mate_score))]
    ELSE st

\* Lines 241-261: the first move of the principal variation.
parse_pv(st, line) ==
    LET pv_start == find(line, " pv ")
    IN  IF pv_start = None THEN st
        ELSE LET pv_str == StrFrom(line, pv_start[1] + 3)
                 pv_moves == split_whitespace(pv_str)
             IN  IF pv_moves = <<>> THEN st
                 ELSE LET best_move == pv_moves[1]
                      IN  IF Len(best_move) >= 4 /\ Len(best_move) <= 5
                          THEN [st EXCEPT !.current_move =
                                    Some(<<StrRange(best_move, 0, 2), StrRange(best_move, 2, 4)>>)]
                          ELSE st

\* Lines 207-264: a progress line.
is_progress_line(line) ==
    contains(line, "info depth") /\ contains(line, "score") /\ contains(line, "pv ")

parse_progress(st, line, is_white_move) ==
    [parse_pv(parse_score(parse_depth(st, line), line, is_white_move), line)
        EXCEPT !.found_update = TRUE]

\* Lines 266-279: a bestmove line (the loop breaks after it in any case).
parse_bestmove(st, line) ==
    LET parts == split_whitespace(line)
    IN  IF Len(parts) >= 2
        THEN LET best_move == parts[2]
             IN  IF ~contains(best_move, "(none)") /\ Len(best_move) >= 4
                 THEN [st EXCEPT !.current_move =
                            Some(<<StrRange(best_move, 0, 2), StrRange(best_move, 2, 4)>>),
                                 !.is_final = TRUE,
                                 !.found_update = TRUE]
                 ELSE st
        ELSE st

\* The for loop over new_lines, from the i-th new line on.
RECURSIVE scan_lines(_, _, _, _)
scan_lines(st, new_lines, i, is_white_move) ==
    IF i > Len(new_lines) THEN st
    ELSE LET line == new_lines[i].text
             st1 == IF is_progress_line(line)
                    THEN parse_progress(st, line, is_white_move)
                    ELSE st
         IN  IF contains(line, "bestmove")
             THEN parse_bestmove(st1, line)
             ELSE scan_lines(st1, new_lines, i + 1, is_white_move)

\* Lines 192-200: the cursor is reset when the buffer became shorter.
new_lines_of(buffer, processed_lines) ==
    LET from == IF processed_lines > Len(buffer) THEN 0 ELSE processed_lines
    IN  IF from < Len(buffer) THEN SubSeq(buffer, from + 1, Len(buffer)) ELSE <<>>

----------------------------------------------------------------------------
\* engine.rs: the supervisor after construction, the subprocess, the reader
\* thread, the foreground calls and the polling threads.

Sessions == 1..MaxSessions

\* The arguments find_best_move is called with: depth, time_ms, is_white_move.
SearchArgs ==
    {[depth |-> Some(1), time_ms |-> None, is_white_move |-> TRUE],
     [depth |-> None, time_ms |-> Some(100), is_white_move |-> FALSE],
     [depth |-> None, time_ms |-> None, is_white_move |-> TRUE]}

\* Lines 148-155.
go_cmd(depth, time_ms) ==
    IF depth # None THEN "go" \o " depth " \o ToString(depth[1])
    ELSE IF time_ms # None THEN "go" \o " movetime " \o ToString(time_ms[1])
    ELSE "go" \o " depth 20"

\* Lines the subprocess writes during a search, and to end one.
InfoLines == {"info depth 1 seldepth 1 multipv 1 score cp 50 nodes 20 pv e2e4 e7e5"}

BestLines == {"bestmove e2e4 ponder e7e5"}

\* A polling thread that was not spawned, and one at its start (lines 174-176).
NoTask ==
    [pc |-> "none", is_white_move |-> TRUE, last_sent_move |-> None,
     last_sent_eval |-> None, processed_lines |-> 0, poll |-> poll_locals]

task_start(is_white_move) ==
    [NoTask EXCEPT !.pc = "loop", !.is_white_move = is_white_move]

NoObs == [cancelled |-> FALSE, inflight |-> 0, pubs |-> 0, polls |-> 0,
          answered |-> FALSE, scanned |-> 0]

FgIdle == [pc |-> "idle", s |-> 0, go_cmd |-> "", is_white_move |-> TRUE]

ENGINE_THREADS == "4"
ENGINE_HASH == "128"

\* set_option (lines 334-336): the command it sends.
set_option(name, value) == "setoption name " \o name \o " value " \o value

SendStep(command) == [op |-> "send", arg |-> command]
WaitStep(response) == [op |-> "wait", arg |-> response]

\* Lines 80-92: the calls new makes after building the struct, in order.
Handshake_ready_first ==
    <<SendStep("uci"), WaitStep("uciok"),
      SendStep(set_option("Threads", ENGINE_THREADS)),
      SendStep(set_option("Hash", ENGINE_HASH)),
      SendStep(set_option("MultiPV", "1")),
      SendStep("isready"), SendStep("ucinewgame"), WaitStep("readyok"),
      SendStep("position startpos"), SendStep("isready"), WaitStep("readyok")>>

Handshake ==
    <<SendStep("uci"), WaitStep("uciok"),
      SendStep(set_option("Threads", ENGINE_THREADS)),
      SendStep(set_option("Hash", ENGINE_HASH)),
      SendStep(set_option("MultiPV", "1")),
      SendStep("ucinewgame"), SendStep("isready"), WaitStep("readyok"),
      SendStep("position startpos"), SendStep("isready"), WaitStep("readyok")>>

\* new right after the struct is built (line 78), and after it returned Ok
\* (line 94). log: the commands sent and the waits completed, in order;
\* teardown: the steps of Drop performed, in order.
LifeStart ==
    [pc |-> "new", step |-> 1, log |-> <<>>, teardown |-> <<>>, result |-> "none"]

LifeReady ==
    [pc |-> "ready", step |-> Len(Handshake) + 1, log |-> Handshake,
     teardown |-> <<>>, result |-> "ok"]

\* What the three waits of a handshake return when the subprocess answers
\* each command before the next is sent.
DeliveredReady ==
    <<<<[text |-> "id name Stockfish", go |-> 0, id |-> 1],
        [text |-> "uciok", go |-> 0, id |-> 2]>>,
      <<[text |-> "readyok", go |-> 0, id |-> 3]>>,
      <<[text |-> "readyok", go |-> 0, id |-> 4]>>>>

\* The supervisor with no search started and nothing buffered; written, l
\* and d say how far new has come.
SupervisorState(written, l, d) ==
    /\ output_buffer = <<>>
    /\ cancel_search = FALSE
    /\ current_best_move = None
    /\ current_evaluation = None
    /\ stdin = <<>>
    /\ engine = [gos |-> 0, searching |-> 0, infos |-> 0]
    /\ pipe = <<>>
    /\ fg = FgIdle
    /\ calls = [find |-> 0, cancel |-> 0, drain |-> 0]
    /\ task = [s \in Sessions |-> NoTask]
    /\ chan = [s \in Sessions |-> <<>>]
    /\ rx_alive = [s \in Sessions |-> TRUE]
    /\ obs = [s \in Sessions |-> NoObs]
    /\ running = TRUE
    /\ reader_thread = "reading"
    /\ process = [state |-> "alive", written |-> written]
    /\ life = l
    /\ delivered = d

\* StockfishEngineInternal::new has returned: the handshake is over, its last
\* wait_for_response drained the buffer.
EngineReady == SupervisorState(4, LifeReady, DeliveredReady)

\* The struct is built (lines 69-78): the subprocess and the reader thread
\* run, nothing was sent yet.
EngineBuilt == SupervisorState(0, LifeStart, <<>>)

\* ---- the subprocess (a UCI engine)

\* The engine writes lines; go names the search the lines belong to (0: none)
\* and id numbers the lines the subprocess has written, from 1.
emit_lines(texts, go) ==
    /\ pipe' = pipe \o [k \in 1..Len(texts) |->
                            [text |-> texts[k], go |-> go, id |-> process.written + k]]
    /\ process' = [process EXCEPT !.written = @ + Len(texts)]

emit(text, go) == emit_lines(<<text>>, go)

\* The engine reads its next command. uci is answered with the engine's
\* name and uciok, isready with readyok, quit makes it exit. A go starts a
\* search once the search under way (if any) has ended; a stop ends the
\* search with a bestmove line; other commands write nothing.
engine_read ==
    /\ process.state = "alive"
    /\ stdin # <<>>
    /\ stdin' = Tail(stdin)
    /\ LET cmd == Head(stdin)
       IN  IF cmd = "uci"
           THEN /\ emit_lines(<<"id name Stockfish", "uciok">>, 0)
                /\ UNCHANGED <<engine, obs>>
           ELSE IF cmd = "isready"
           THEN /\ emit("readyok", 0)
                /\ UNCHANGED <<engine, obs>>
           ELSE IF cmd = "quit"
           THEN /\ process' = [process EXCEPT !.state = "exited"]
                /\ UNCHANGED <<engine, pipe, obs>>
           ELSE IF contains(cmd, "go")
           THEN /\ engine.searching = 0
                /\ engine' = [gos |-> engine.gos + 1, searching |-> engine.gos + 1,
                              infos |-> 0]
                /\ UNCHANGED <<pipe, obs, process>>
           ELSE IF cmd = "stop" /\ engine.searching # 0
           THEN \E line \in BestLines :
                /\ emit(line, engine.searching)
                /\ engine' = [engine EXCEPT !.searching = 0]
                /\ obs' = [obs EXCEPT ![engine.searching].answered =
                                @ \/ ~contains(line, "(none)")]
           ELSE UNCHANGED <<engine, pipe, obs, process>>
    /\ UNCHANGED <<output_buffer, cancel_search, current_best_move, current_evaluation,
                   fg, calls, task, chan, rx_alive, replayVars, lockVars, fenVars,
                   running, reader_thread, life, delivered>>

engine_info ==
    /\ process.state = "alive"
    /\ engine.searching # 0
    /\ engine.infos < MaxInfo
    /\ \E line \in InfoLines : emit(line, engine.searching)
    /\ engine' = [engine EXCEPT !.infos = @ + 1]
    /\ UNCHANGED <<output_buffer, cancel_search, current_best_move, current_evaluation,
                   stdin, fg, calls, task, chan, rx_alive, obs, replayVars, lockVars, fenVars,
                   running, reader_thread, life, delivered>>

\* The search ends by itself.
engine_bestmove ==
    /\ process.state = "alive"
    /\ engine.searching # 0
    /\ \E line \in BestLines :
        /\ emit(line, engine.searching)
        /\ obs' = [obs EXCEPT ![engine.searching].answered =
                        @ \/ ~contains(line, "(none)")]
    /\ engine' = [engine EXCEPT !.searching = 0]
    /\ UNCHANGED <<output_buffer, cancel_search, current_best_move, current_evaluation,
                   stdin, fg, calls, task, chan, rx_alive, replayVars, lockVars, fenVars,
                   running, reader_thread, life, delivered>>

\* ---- the reader thread (lines 48-67)

\* One line is read and pushed; the loop ends when running is false then.
reader_push_front ==
    /\ reader_thread = "reading"
    /\ pipe # <<>>
    /\ output_buffer' = <<Head(pipe)>> \o output_buffer
    /\ pipe' = Tail(pipe)
    /\ reader_thread' = IF running THEN "reading" ELSE "exited"
    /\ UNCHANGED <<cancel_search, current_best_move, current_evaluation, stdin, engine,
                   fg, calls, task, chan, rx_alive, obs, replayVars, lockVars, fenVars,
                   running, process, life, delivered>>

reader_push ==
    /\ reader_thread = "reading"
    /\ pipe # <<>>
    /\ output_buffer' = Append(output_buffer, Head(pipe))
    /\ pipe' = Tail(pipe)
    /\ reader_thread' = IF running THEN "reading" ELSE "exited"
    /\ UNCHANGED <<cancel_search, current_best_move, current_evaluation, stdin, engine,
                   fg, calls, task, chan, rx_alive, obs, replayVars, lockVars, fenVars,
                   running, process, life, delivered>>

\* lines() ends: the subprocess has closed its output and nothing is left
\* to read. Until then the thread stays blocked in the read.
reader_eof ==
    /\ reader_thread = "reading"
    /\ pipe = <<>>
    /\ process.state \in {"exited", "killed"}
    /\ reader_thread' = "exited"
    /\ UNCHANGED <<replayVars, lockVars, fenVars, engineVars, running, process, life, delivered>>


\* ---- send_command (lines 97-103): one line written under the writer lock.
send_command(command) == stdin' = Append(stdin, command)

\* ---- find_best_move (lines 145-323), the foreground part

\* Lines 146-155: the cancel flag is reset and the go command built.
fbm_reset_cancel ==
    /\ fg.pc = "idle"
    /\ calls.find < MaxSessions
    /\ \E a \in SearchArgs :
        fg' = [pc |-> "fbm_send_go", s |-> calls.find + 1,
               go_cmd |-> go_cmd(a.depth, a.time_ms), is_white_move |-> a.is_white_move]
    /\ calls' = [calls EXCEPT !.find = @ + 1]
    /\ cancel_search' = FALSE
    /\ UNCHANGED <<output_buffer, current_best_move, current_evaluation, stdin, engine,
                   pipe, task, chan, rx_alive, obs, replayVars, lockVars, fenVars, lifeVars>>

\* Line 157.
fbm_send_go ==
    /\ fg.pc = "fbm_send_go"
    /\ send_command(fg.go_cmd)
    /\ fg' = [fg EXCEPT !.pc = "fbm_reset_snapshot"]
    /\ UNCHANGED <<output_buffer, cancel_search, current_best_move, current_evaluation,
                   engine, pipe, calls, task, chan, rx_alive, obs, replayVars, lockVars, fenVars, lifeVars>>

\* Lines 159-162.
fbm_reset_snapshot ==
    /\ fg.pc = "fbm_reset_snapshot"
    /\ current_best_move' = None
    /\ current_evaluation' = None
    /\ fg' = [fg EXCEPT !.pc = "fbm_clear"]
    /\ UNCHANGED <<output_buffer, cancel_search, stdin, engine, pipe, calls, task, chan,
                   rx_alive, obs, replayVars, lockVars, fenVars, lifeVars>>

\* Lines 164-173: the buffer is cleared and the polling thread spawned.
fbm_clear_and_spawn ==
    /\ fg.pc = "fbm_clear"
    /\ output_buffer' = <<>>
    /\ task' = [task EXCEPT ![fg.s] = task_start(fg.is_white_move)]
    /\ fg' = FgIdle
    /\ UNCHANGED <<cancel_search, current_best_move, current_evaluation, stdin, engine,
                   pipe, calls, chan, rx_alive, obs, replayVars, lockVars, fenVars, lifeVars>>

\* ---- cancel_search (lines 325-328)

Running(s) == task[s].pc \notin {"none", "done"}

\* Line 326. The sessions running now are the ones this call cancels.
cancel_store ==
    /\ fg.pc = "idle"
    /\ calls.cancel < MaxCancels
    /\ calls' = [calls EXCEPT !.cancel = @ + 1]
    /\ cancel_search' = TRUE
    /\ obs' = [s \in Sessions |->
                IF Running(s) /\ ~obs[s].cancelled
                THEN [obs[s] EXCEPT !.cancelled = TRUE,
                                    !.inflight = IF task[s].pc = "publish" THEN 1 ELSE 0]
                ELSE obs[s]]
    /\ fg' = [FgIdle EXCEPT !.pc = "cancel_send_stop"]
    /\ UNCHANGED <<output_buffer, current_best_move, current_evaluation, stdin, engine,
                   pipe, task, chan, rx_alive, replayVars, lockVars, fenVars, lifeVars>>

\* Line 327.
cancel_send_stop ==
    /\ fg.pc = "cancel_send_stop"
    /\ send_command("stop")
    /\ fg' = FgIdle
    /\ UNCHANGED <<output_buffer, cancel_search, current_best_move, current_evaluation,
                   engine, pipe, calls, task, chan, rx_alive, obs, replayVars, lockVars, fenVars, lifeVars>>

\* ---- get_output (lines 105-111)

\* Vec::append moves the lines out of the buffer.
drain_copy(buffer) == [result |-> buffer, buffer |-> buffer]

drain(buffer) == [result |-> buffer, buffer |-> <<>>]

\* A call by the owner outside wait_for_response.
get_output ==
    /\ fg.pc = "idle"
    /\ calls.drain < MaxDrains
    /\ calls' = [calls EXCEPT !.drain = @ + 1]
    /\ output_buffer' = drain(output_buffer).buffer
    /\ UNCHANGED <<cancel_search, current_best_move, current_evaluation, stdin, engine,
                   pipe, fg, task, chan, rx_alive, obs, replayVars, lockVars, fenVars, lifeVars>>

\* ---- the caller drops the receiver of a session's channel.
drop_receiver(s) ==
    /\ s <= calls.find
    /\ rx_alive[s]
    /\ rx_alive' = [rx_alive EXCEPT ![s] = FALSE]
    /\ UNCHANGED <<output_buffer, cancel_search, current_best_move, current_evaluation,
                   stdin, engine, pipe, fg, calls, task, chan, obs, replayVars, lockVars, fenVars, lifeVars>>

\* ---- the polling thread of session s (lines 173-322)

\* The number of the last line a poll takes as scanned: the last line of
\* its batch, or the one before when the batch is empty.
last_id(before, buffer, processed_lines) ==
    LET new_lines == new_lines_of(buffer, processed_lines)
    IN  IF new_lines = <<>> THEN before ELSE new_lines[Len(new_lines)].id

\* Lines 179-181: the check at the top of the loop.
task_check(s) ==
    /\ task[s].pc = "loop"
    /\ task' = [task EXCEPT ![s].pc = IF cancel_search THEN "done" ELSE "sleep"]
    /\ UNCHANGED <<output_buffer, cancel_search, current_best_move, current_evaluation,
                   stdin, engine, pipe, fg, calls, chan, rx_alive, obs, replayVars, lockVars, fenVars, lifeVars>>

\* Lines 183-283: the sleep ends and the new lines are scanned with the
\* buffer locked. The flag read at each line is read once here: the buffer
\* cannot change during the scan, and a flag set between two lines ends the
\* thread just as a flag set before the first line does.
task_poll(s) ==
    /\ task[s].pc = "sleep"
    /\ LET new_lines == new_lines_of(output_buffer, task[s].processed_lines)
           st == scan_lines(poll_locals, new_lines, 1, task[s].is_white_move)
       IN  IF new_lines # <<>> /\ cancel_search
           THEN task' = [task EXCEPT ![s].pc = "done"]
           ELSE task' = [task EXCEPT ![s].poll = st,
                                     ![s].processed_lines = Len(output_buffer),
                                     ![s].pc = IF st.found_update THEN "publish" ELSE "loop"]
    /\ obs' = [obs EXCEPT ![s].polls =
                    IF obs[s].cancelled /\ @ < MaxCountedPolls THEN @ + 1 ELSE @,
                           ![s].scanned = last_id(@, output_buffer, task[s].processed_lines)]
    /\ UNCHANGED <<output_buffer, cancel_search, current_best_move, current_evaluation,
                   stdin, engine, pipe, fg, calls, chan, rx_alive, replayVars, lockVars, fenVars, lifeVars>>

\* The update built at lines 298-303.
update_of(st) ==
    [best_move |-> st.current_move, evaluation |-> st.current_eval,
     depth |-> st.current_depth, is_final |-> st.is_final]

\* Line 290.
should_send(t) ==
    LET move_changed == t.poll.current_move # t.last_sent_move
        eval_changed == t.poll.current_eval # t.last_sent_eval
        depth_changed == t.poll.current_depth # None
    IN  move_changed \/ eval_changed \/ depth_changed \/ t.poll.is_final

\* Lines 285-320: the update is filtered, stored in the snapshot and sent.
task_publish_ignore_send_error(s) ==
    /\ task[s].pc = "publish"
    /\ LET t == task[s]
           st == t.poll
       IN  IF should_send(t)
           THEN /\ current_best_move' =
                        IF st.current_move # None THEN st.current_move ELSE current_best_move
                /\ current_evaluation' =
                        IF st.current_eval # None THEN st.current_eval ELSE current_evaluation
                /\ chan' = [chan EXCEPT ![s] = IF rx_alive[s] THEN Append(@, update_of(st)) ELSE @]
                /\ task' = [task EXCEPT ![s].last_sent_move = st.current_move,
                                        ![s].last_sent_eval = st.current_eval,
                                        ![s].poll = poll_locals,
                                        ![s].pc = IF st.is_final THEN "done" ELSE "loop"]
                /\ obs' = [obs EXCEPT ![s].pubs =
                                IF obs[s].cancelled /\ rx_alive[s] THEN @ + 1 ELSE @]
           ELSE /\ task' = [task EXCEPT ![s].pc = "loop", ![s].poll = poll_locals]
                /\ UNCHANGED <<current_best_move, current_evaluation, chan, obs>>
    /\ UNCHANGED <<output_buffer, cancel_search, stdin, engine, pipe, fg, calls, rx_alive,
                   replayVars, lockVars, fenVars, lifeVars>>

task_publish_no_break_on_final(s) ==
    /\ task[s].pc = "publish"
    /\ LET t == task[s]
           st == t.poll
       IN  IF should_send(t)
           THEN /\ current_best_move' =
                        IF st.current_move # None THEN st.current_move ELSE current_best_move
                /\ current_evaluation' =
                        IF st.current_eval # None THEN st.current_eval ELSE current_evaluation
                /\ IF rx_alive[s]
                   THEN /\ chan' = [chan EXCEPT ![s] = Append(@, update_of(st))]
                        /\ task' = [task EXCEPT ![s].last_sent_move = st.current_move,
                                                ![s].last_sent_eval = st.current_eval,
                                                ![s].poll = poll_locals,
                                                ![s].pc = "loop"]
                        /\ obs' = [obs EXCEPT ![s].pubs =
                                        IF obs[s].cancelled THEN @ + 1 ELSE @]
                   ELSE /\ task' = [task EXCEPT ![s].pc = "done", ![s].poll = poll_locals]
                        /\ UNCHANGED <<chan, obs>>
           ELSE /\ task' = [task EXCEPT ![s].pc = "loop", ![s].poll = poll_locals]
                /\ UNCHANGED <<current_best_move, current_evaluation, chan, obs>>
    /\ UNCHANGED <<output_buffer, cancel_search, stdin, engine, pipe, fg, calls, rx_alive,
                   replayVars, lockVars, fenVars, lifeVars>>

task_publish(s) ==
    /\ task[s].pc = "publish"
    /\ LET t == task[s]
           st == t.poll
       IN  IF should_send(t)
           THEN /\ current_best_move' =
                        IF st.current_move # None THEN st.current_move ELSE current_best_move
                /\ current_evaluation' =
                        IF st.current_eval # None THEN st.current_eval ELSE current_evaluation
                /\ IF rx_alive[s]
                   THEN /\ chan' = [chan EXCEPT ![s] = Append(@, update_of(st))]
                        /\ task' = [task EXCEPT ![s].last_sent_move = st.current_move,
                                                ![s].last_sent_eval = st.current_eval,
                                                ![s].poll = poll_locals,
                                                ![s].pc = IF st.is_final THEN "done" ELSE "loop"]
                        /\ obs' = [obs EXCEPT ![s].pubs =
                                        IF obs[s].cancelled THEN @ + 1 ELSE @]
                   ELSE /\ task' = [task EXCEPT ![s].pc = "done", ![s].poll = poll_locals]
                        /\ UNCHANGED <<chan, obs>>
           ELSE /\ task' = [task EXCEPT ![s].pc = "loop", ![s].poll = poll_locals]
                /\ UNCHANGED <<current_best_move, current_evaluation, chan, obs>>
    /\ UNCHANGED <<output_buffer, cancel_search, stdin, engine, pipe, fg, calls, rx_alive,
                   replayVars, lockVars, fenVars, lifeVars>>

\* ---- the subprocess stops by itself

\* It stops reading commands and writing lines, without exiting.
process_hang ==
    /\ process.state = "alive"
    /\ process' = [process EXCEPT !.state = "hung"]
    /\ UNCHANGED <<replayVars, lockVars, fenVars, engineVars, running, reader_thread, life,
                   delivered>>

\* It exits.
process_crash ==
    /\ process.state = "alive"
    /\ process' = [process EXCEPT !.state = "exited"]
    /\ UNCHANGED <<replayVars, lockVars, fenVars, engineVars, running, reader_thread, life,
                   delivered>>

\* ---- new (lines 80-94) and wait_for_response (lines 113-143)

\* The write of send_command succeeds while the subprocess holds its input.
writable == process.state \in {"alive", "hung"}

\* Lines 118, 126: some buffered line contains the response.
any_contains(buffer, response) ==
    \E i \in 1..Len(buffer) : contains(buffer[i].text, response)

\* A step of new fails: the ? returns the error and the struct, going out
\* of scope, is dropped.
new_failed == [life EXCEPT !.pc = "drop_flag", !.result = "err"]

\* A send_command of the handshake.
new_send ==
    /\ life.pc = "new"
    /\ life.step <= Len(Handshake)
    /\ Handshake[life.step].op = "send"
    /\ IF writable
       THEN /\ send_command(Handshake[life.step].arg)
            /\ life' = [life EXCEPT !.step = @ + 1, !.log = Append(@, Handshake[life.step])]
       ELSE /\ life' = new_failed
            /\ UNCHANGED stdin
    /\ UNCHANGED <<output_buffer, cancel_search, current_best_move, current_evaluation,
                   engine, pipe, fg, calls, task, chan, rx_alive, obs, replayVars, lockVars, fenVars,
                   running, reader_thread, process, delivered>>

\* wait_for_response is entered: the first look at the buffer (lines 117-121).
wfr_enter ==
    /\ life.pc = "new"
    /\ life.step <= Len(Handshake)
    /\ Handshake[life.step].op = "wait"
    /\ life' = [life EXCEPT !.pc =
                    IF any_contains(output_buffer, Handshake[life.step].arg)
                    THEN "drain" ELSE "wait"]
    /\ UNCHANGED <<replayVars, lockVars, fenVars, engineVars, running, reader_thread, process,
                   delivered>>

\* One round of the loop within the timeout (lines 123-133).
wfr_poll ==
    /\ life.pc = "wait"
    /\ life' = [life EXCEPT !.pc =
                    IF any_contains(output_buffer, Handshake[life.step].arg)
                    THEN "drain" ELSE "wait"]
    /\ UNCHANGED <<replayVars, lockVars, fenVars, engineVars, running, reader_thread, process,
                   delivered>>

\* A timeout that hands the buffered lines to nobody.
wfr_timeout_drains ==
    /\ life.pc = "wait"
    /\ life' = new_failed
    /\ output_buffer' = drain(output_buffer).buffer
    /\ UNCHANGED <<cancel_search, current_best_move, current_evaluation, stdin, engine,
                   pipe, fg, calls, task, chan, rx_alive, obs, replayVars, lockVars, fenVars,
                   running, reader_thread, process, delivered>>

\* The timeout has elapsed with nothing found (lines 135-140).
wfr_timeout ==
    /\ life.pc = "wait"
    /\ life' = new_failed
    /\ UNCHANGED <<replayVars, lockVars, fenVars, engineVars, running, reader_thread, process,
                   delivered>>

\* Line 142: the buffer is drained into the result.
wfr_drain ==
    /\ life.pc = "drain"
    /\ output_buffer' = drain(output_buffer).buffer
    /\ delivered' = Append(delivered, drain(output_buffer).result)
    /\ life' = [life EXCEPT !.pc = "new", !.step = @ + 1,
                            !.log = Append(@, Handshake[life.step])]
    /\ UNCHANGED <<cancel_search, current_best_move, current_evaluation, stdin, engine,
                   pipe, fg, calls, task, chan, rx_alive, obs, replayVars, lockVars, fenVars,
                   running, reader_thread, process>>

\* Line 94.
new_return ==
    /\ life.pc = "new"
    /\ life.step > Len(Handshake)
    /\ life' = [life EXCEPT !.pc = "ready", !.result = "ok"]
    /\ UNCHANGED <<replayVars, lockVars, fenVars, engineVars, running, reader_thread, process,
                   delivered>>

\* ---- Drop (lines 339-353)

\* The owner lets go of a supervisor that is not in a call.
supervisor_drop ==
    /\ life.pc = "ready"
    /\ fg.pc = "idle"
    /\ life' = [life EXCEPT !.pc = "drop_flag"]
    /\ UNCHANGED <<replayVars, lockVars, fenVars, engineVars, running, reader_thread, process,
                   delivered>>

\* Lines 341-343.
drop_stop_flag ==
    /\ life.pc = "drop_flag"
    /\ running' = FALSE
    /\ life' = [life EXCEPT !.pc = "drop_quit", !.teardown = Append(@, "stop_flag")]
    /\ UNCHANGED <<replayVars, lockVars, fenVars, engineVars, reader_thread, process, delivered>>

\* Lines 345, 349-351 in this order: the reader is joined after quit was
\* sent.
drop_send_quit_then_kill ==
    /\ life.pc = "drop_quit"
    /\ IF writable THEN send_command("quit") ELSE UNCHANGED stdin
    /\ life' = [life EXCEPT !.pc = "drop_kill", !.teardown = Append(@, "quit"),
                            !.log = Append(@, SendStep("quit"))]
    /\ UNCHANGED <<output_buffer, cancel_search, current_best_move, current_evaluation,
                   engine, pipe, fg, calls, task, chan, rx_alive, obs, replayVars, lockVars, fenVars,
                   running, reader_thread, process, delivered>>

\* Line 345: an error of the write is ignored.
drop_send_quit ==
    /\ life.pc = "drop_quit"
    /\ IF writable THEN send_command("quit") ELSE UNCHANGED stdin
    /\ life' = [life EXCEPT !.pc = "drop_join", !.teardown = Append(@, "quit"),
                            !.log = Append(@, SendStep("quit"))]
    /\ UNCHANGED <<output_buffer, cancel_search, current_best_move, current_evaluation,
                   engine, pipe, fg, calls, task, chan, rx_alive, obs, replayVars, lockVars, fenVars,
                   running, reader_thread, process, delivered>>

\* Lines 347-349: join returns once the reader thread has ended.
drop_join ==
    /\ life.pc = "drop_join"
    /\ reader_thread = "exited"
    /\ life' = [life EXCEPT !.pc = "drop_kill", !.teardown = Append(@, "join")]
    /\ UNCHANGED <<replayVars, lockVars, fenVars, engineVars, running, reader_thread, process,
                   delivered>>

\* Line 351: the subprocess is killed if it still runs.
drop_kill ==
    /\ life.pc = "drop_kill"
    /\ process' = [process EXCEPT !.state = IF writable THEN "killed" ELSE @]
    /\ life' = [life EXCEPT !.pc = "dropped", !.teardown = Append(@, "kill")]
    /\ UNCHANGED <<replayVars, lockVars, fenVars, engineVars, running, reader_thread, delivered>>

DropStep ==
    \/ drop_stop_flag
    \/ drop_send_quit
    \/ drop_join
    \/ drop_kill

\* The lifetime of a supervisor: construction, then Drop.
NextLife ==
    \/ engine_read
    \/ process_hang
    \/ process_crash
    \/ reader_push
    \/ reader_eof
    \/ new_send
    \/ wfr_enter
    \/ wfr_poll
    \/ wfr_timeout
    \/ wfr_drain
    \/ new_return
    \/ supervisor_drop
    \/ drop_stop_flag
    \/ drop_send_quit
    \/ drop_join
    \/ drop_kill

NextEngine ==
    \/ engine_read
    \/ engine_info
    \/ engine_bestmove
    \/ reader_push
    \/ fbm_reset_cancel
    \/ fbm_send_go
    \/ fbm_reset_snapshot
    \/ fbm_clear_and_spawn
    \/ cancel_store
    \/ cancel_send_stop
    \/ \E s \in Sessions : task_check(s)
    \/ \E s \in Sessions : task_poll(s)
    \/ \E s \in Sessions : task_publish(s)

\* The same with the caller also draining the buffer and dropping receivers.
NextEngineAll ==
    \/ NextEngine
    \/ get_output
    \/ \E s \in Sessions : drop_receiver(s)


----------------------------------------------------------------------------
\* The locks of StockfishEngineInternal (engine.rs:21-30) and the order in
\* which each function takes and releases them. A thread is a list of steps;
\* a lock step waits until the Mutex is free. The steps listed are the lock
\* and unlock of a Mutex, what is done under it, the writes on the
\* subprocess's stdin and the sleeps; a step a thread takes on its own data
\* outside every lock commutes with the steps of the other threads and is
\* not listed.

Mutexes == {"writer", "output_buffer", "running", "current_best_move",
            "current_evaluation"}

Threads == {"caller1", "caller2", "reader", "poller"}

POLL_SLEEP_MS == 10
TASK_SLEEP_MS == 100

Lock(m) == [op |-> "lock", arg |-> m]
Unlock(m) == [op |-> "unlock", arg |-> m]
Sleep(ms) == [op |-> "sleep", arg |-> ToString(ms)]
Write(text) == [op |-> "write", arg |-> text]
Work(what) == [op |-> "work", arg |-> what]

\* send_command (lines 97-103): writeln! writes the command and then the
\* newline, the stream is flushed, and the guard is dropped at the end of
\* the if-let.
send_command_unlocked(command) ==
    <<Write(command), Write("\n"), Work("flush")>>

send_command_steps(command) ==
    <<Lock("writer"), Write(command), Write("\n"), Work("flush"), Unlock("writer")>>

\* get_output (lines 105-111).
get_output_steps ==
    <<Lock("output_buffer"), Work("append"), Unlock("output_buffer")>>

\* One round of the loop of wait_for_response (lines 124-132): the guard is
\* dropped at the end of the if-let, before the sleep.
wait_round_sleep_locked ==
    <<Lock("output_buffer"), Work("scan"), Sleep(POLL_SLEEP_MS), Unlock("output_buffer")>>

wait_round ==
    <<Lock("output_buffer"), Work("scan"), Unlock("output_buffer"), Sleep(POLL_SLEEP_MS)>>

RECURSIVE Repeat(_, _)
Repeat(steps, n) == IF n = 0 THEN <<>> ELSE steps \o Repeat(steps, n - 1)

\* wait_for_response (lines 113-143) that finds the response after the
\* given number of rounds.
wait_for_response_steps(rounds) ==
    <<Lock("output_buffer"), Work("any"), Unlock("output_buffer")>>
        \o Repeat(wait_round, rounds)
        \o get_output_steps

\* find_best_move (lines 145-176), the caller's part.
find_best_move_steps(go) ==
    send_command_steps(go)
        \o <<Lock("current_best_move"), Work("reset"), Unlock("current_best_move"),
             Lock("current_evaluation"), Work("reset"), Unlock("current_evaluation"),
             Lock("output_buffer"), Work("clear"), Unlock("output_buffer")>>

\* cancel_search (lines 325-328).
cancel_search_steps == send_command_steps("stop")

\* set_position (lines 330-332): the command it sends.
set_position(fen) == "position fen " \o fen

EmptyBoardFen == "8/8/8/8/8/8/8/8 w - - 0 1"

\* One iteration of the polling thread that publishes an update (lines
\* 178-321): the guards on the snapshot are temporaries, dropped at the end
\* of their statements.
polling_steps ==
    <<Sleep(TASK_SLEEP_MS),
      Lock("output_buffer"), Work("scan"), Unlock("output_buffer"),
      Lock("current_best_move"), Work("store"), Unlock("current_best_move"),
      Lock("current_evaluation"), Work("store"), Unlock("current_evaluation")>>

\* Drop (lines 339-345), up to the quit command; the join and the kill that
\* follow take no lock.
drop_steps ==
    <<Lock("running"), Work("store"), Unlock("running")>> \o send_command_steps("quit")

\* The reader thread reading the flag while it still holds the buffer.
reader_steps_nested ==
    <<Lock("output_buffer"), Work("push"),
      Lock("running"), Work("load"), Unlock("running"), Unlock("output_buffer")>>

\* One iteration of the reader thread (lines 50-66).
reader_steps ==
    <<Lock("output_buffer"), Work("push"), Unlock("output_buffer"),
      Lock("running"), Work("load"), Unlock("running")>>

\* The calls a caller makes on the shared engine.
Calls == {"set_position", "find_best_move", "cancel_search", "wait_for_response", "drop"}

MaxWaitRounds == 1

\* What the two callers do: one makes two calls that send a command each,
\* the other one call.
SenderScripts == {<<"set_position", "find_best_move">>, <<"find_best_move", "cancel_search">>}

OtherScripts == {<<call>> : call \in Calls}

steps_of(call) ==
    CASE call = "set_position" -> send_command_steps(set_position(EmptyBoardFen))
      [] call = "find_best_move" -> find_best_move_steps(go_cmd(Some(1), None))
      [] call = "cancel_search" -> cancel_search_steps
      [] call = "wait_for_response" -> wait_for_response_steps(MaxWaitRounds)
      [] call = "drop" -> drop_steps

\* The commands a call sends.
commands_of(call) ==
    CASE call = "set_position" -> <<set_position(EmptyBoardFen)>>
      [] call = "find_best_move" -> <<go_cmd(Some(1), None)>>
      [] call = "cancel_search" -> <<"stop">>
      [] call = "wait_for_response" -> <<>>
      [] call = "drop" -> <<"quit">>

RECURSIVE script_steps(_)
script_steps(script) ==
    IF script = <<>> THEN <<>>
    ELSE steps_of(Head(script)) \o script_steps(Tail(script))

RECURSIVE script_commands(_)
script_commands(script) ==
    IF script = <<>> THEN <<>>
    ELSE commands_of(Head(script)) \o script_commands(Tail(script))

ThreadOf(steps, commands) == [prog |-> steps, asleep |-> FALSE, issued |-> commands]

ThreadIdle == ThreadOf(<<>>, <<>>)

LocksIdle ==
    /\ mutex = [m \in Mutexes |-> ""]
    /\ thread = [t \in Threads |-> ThreadIdle]
    /\ wire = <<>>

\* The step a thread takes next.
next_step(t) == Head(thread[t].prog)

Ready(t, op) ==
    /\ thread[t].prog # <<>>
    /\ ~thread[t].asleep
    /\ next_step(t).op = op

Advance(t) == thread' = [thread EXCEPT ![t].prog = Tail(@)]

\* Mutex::lock: blocks while another thread holds the Mutex.
acquire(t) ==
    /\ Ready(t, "lock")
    /\ mutex[next_step(t).arg] = ""
    /\ mutex' = [mutex EXCEPT ![next_step(t).arg] = t]
    /\ Advance(t)
    /\ UNCHANGED <<wire, replayVars, fenVars, engineVars, lifeVars>>

\* The guard is dropped.
release(t) ==
    /\ Ready(t, "unlock")
    /\ mutex' = [mutex EXCEPT ![next_step(t).arg] = ""]
    /\ Advance(t)
    /\ UNCHANGED <<wire, replayVars, fenVars, engineVars, lifeVars>>

\* thread::sleep begins and ends.
sleep_begin(t) ==
    /\ Ready(t, "sleep")
    /\ thread' = [thread EXCEPT ![t].asleep = TRUE]
    /\ UNCHANGED <<mutex, wire, replayVars, fenVars, engineVars, lifeVars>>

sleep_end(t) ==
    /\ thread[t].asleep
    /\ thread' = [thread EXCEPT ![t].asleep = FALSE, ![t].prog = Tail(@)]
    /\ UNCHANGED <<mutex, wire, replayVars, fenVars, engineVars, lifeVars>>

\* One write on the subprocess's stdin.
write(t) ==
    /\ Ready(t, "write")
    /\ wire' = Append(wire, [by |-> t, text |-> next_step(t).arg])
    /\ Advance(t)
    /\ UNCHANGED <<mutex, replayVars, fenVars, engineVars, lifeVars>>

\* Any other step: it takes no lock and does not wait.
work(t) ==
    /\ Ready(t, "work")
    /\ Advance(t)
    /\ UNCHANGED <<mutex, wire, replayVars, fenVars, engineVars, lifeVars>>

ThreadStep(t) ==
    \/ acquire(t) \/ release(t) \/ sleep_begin(t) \/ sleep_end(t) \/ write(t) \/ work(t)

NextLock ==
    \/ \E t \in Threads : acquire(t)
    \/ \E t \in Threads : release(t)
    \/ \E t \in Threads : sleep_begin(t)
    \/ \E t \in Threads : sleep_end(t)
    \/ \E t \in Threads : write(t)
    \/ \E t \in Threads : work(t)

----------------------------------------------------------------------------
\* Specifications.

\* The replay state machine, with no translation under way.
InitReplay ==
    /\ PlayerIdle
    /\ FenIdle
    /\ LocksIdle
    /\ EngineReady

Next == NextReplay

Spec == InitReplay /\ [][Next]_vars

\* One call of pgn_to_fen_at_move, on a fresh player.
InitFenSpec ==
    /\ InitFen
    /\ LocksIdle
    /\ EngineReady

FenSpec == InitFenSpec /\ [][NextFen]_vars

\* The engine supervisor after construction, its subprocess and threads.
InitEngine ==
    /\ PlayerIdle
    /\ FenIdle
    /\ LocksIdle
    /\ EngineReady

EngineSpec == InitEngine /\ [][NextEngine]_vars

\* The threads, the subprocess and a foreground call under way keep running;
\* whether the caller makes another call or drops a receiver is its choice.
EngineFairness ==
    /\ WF_vars(engine_read) /\ WF_vars(engine_info) /\ WF_vars(engine_bestmove)
    /\ WF_vars(reader_push)
    /\ WF_vars(fbm_send_go) /\ WF_vars(fbm_reset_snapshot) /\ WF_vars(fbm_clear_and_spawn)
    /\ WF_vars(cancel_send_stop)
    /\ \A s \in Sessions :
        WF_vars(task_check(s)) /\ WF_vars(task_poll(s)) /\ WF_vars(task_publish(s))

EngineFairSpec == EngineSpec /\ EngineFairness

\* One session's polling thread and the reader, from the moment the
\* subprocess has written some lines of the search: the lines are scanned
\* and published.
ScoreInputs == {0, 50, -50, 16777216, 16777217, -16777219, 2147483647}

CpLine(depth, score) ==
    "info depth " \o ToString(depth) \o " seldepth 1 multipv 1 score cp "
        \o ToString(score) \o " nodes 20 pv e2e4 e7e5"

MateLine(depth, mate) ==
    "info depth " \o ToString(depth) \o " seldepth 2 multipv 1 score mate "
        \o ToString(mate) \o " nodes 20 pv d8h4"

ScanLines ==
    {CpLine(1, sc) : sc \in ScoreInputs}
        \cup {CpLine(12, 50)}
        \cup {MateLine(3, m) : m \in {2, -1}}
        \cup BestLines

ScanInputs == UNION {[1..n -> ScanLines] : n \in 1..MaxScanLines}

InitScanOver(inputs) ==
    /\ PlayerIdle
    /\ FenIdle
    /\ LocksIdle
    /\ \E lines \in inputs, a \in SearchArgs :
        /\ pipe = [k \in 1..Len(lines) |-> [text |-> lines[k], go |-> 1, id |-> 4 + k]]
        /\ process = [state |-> "alive", written |-> 4 + Len(lines)]
        /\ task = [s \in Sessions |-> IF s = 1 THEN task_start(a.is_white_move) ELSE NoTask]
    /\ output_buffer = <<>>
    /\ cancel_search = FALSE
    /\ current_best_move = None
    /\ current_evaluation = None
    /\ stdin = <<>>
    /\ engine = [gos |-> 1, searching |-> 1, infos |-> 0]
    /\ fg = FgIdle
    /\ calls = [find |-> 1, cancel |-> 0, drain |-> 0]
    /\ chan = [s \in Sessions |-> <<>>]
    /\ rx_alive = [s \in Sessions |-> TRUE]
    /\ obs = [s \in Sessions |-> NoObs]
    /\ running = TRUE
    /\ reader_thread = "reading"
    /\ life = LifeReady
    /\ delivered = DeliveredReady

InitScan == InitScanOver(ScanInputs)

NextScan ==
    \/ reader_push
    \/ task_check(1)
    \/ task_poll(1)
    \/ task_publish(1)

ScanSpec == InitScan /\ [][NextScan]_vars

\* The supervisor's buffer: the subprocess, the reader thread and a caller
\* that starts sessions, cancels them and drains the buffer.
NextBuffer ==
    \/ engine_read
    \/ engine_info
    \/ engine_bestmove
    \/ reader_push
    \/ fbm_reset_cancel
    \/ fbm_send_go
    \/ fbm_reset_snapshot
    \/ fbm_clear_and_spawn
    \/ cancel_store
    \/ cancel_send_stop
    \/ get_output

BufferSpec == InitEngine /\ [][NextBuffer]_vars

\* Two callers sharing the engine, the reader thread and a polling thread,
\* each taking the locks its code takes.
InitLock ==
    /\ PlayerIdle
    /\ FenIdle
    /\ EngineReady
    /\ mutex = [m \in Mutexes |-> ""]
    /\ wire = <<>>
    /\ \E s1 \in SenderScripts, s2 \in OtherScripts :
        thread = [t \in Threads |->
                    CASE t = "caller1" -> ThreadOf(script_steps(s1), script_commands(s1))
                      [] t = "caller2" -> ThreadOf(script_steps(s2), script_commands(s2))
                      [] t = "reader" -> ThreadOf(reader_steps, <<>>)
                      [] t = "poller" -> ThreadOf(polling_steps, <<>>)]

LockSpec == InitLock /\ [][NextLock]_vars

\* The same threads on lines of every kind the scan tells apart: progress
\* lines with a score and a move, with a score or a move that does not
\* parse, mate scores, and bestmove lines with and without a move.
BadScoreLine == "info depth 1 seldepth 1 multipv 1 score cp x nodes 20 pv e2e4 e7e5"

BadMoveLine == "info depth 2 seldepth 1 multipv 1 score cp 50 nodes 20 pv e2"

NoneLine == "bestmove (none)"

MateInputs == {2, 0, -1}

ParseLines ==
    {CpLine(1, 50), BadScoreLine, BadMoveLine, NoneLine}
        \cup {MateLine(3, m) : m \in MateInputs}
        \cup BestLines

ParseInputs == UNION {[1..n -> ParseLines] : n \in 1..MaxScanLines}

InitParse == InitScanOver(ParseInputs)

ParseSpec == InitParse /\ [][NextScan]_vars

\* The same threads with a caller that may drain the buffer at any moment.
CursorLines == {CpLine(1, 50), CpLine(12, 50)}

CursorInputs == UNION {[1..n -> CursorLines] : n \in 1..MaxScanLines}

InitCursor == InitScanOver(CursorInputs)

NextCursor ==
    \/ NextScan
    \/ get_output

CursorSpec == InitCursor /\ [][NextCursor]_vars

\* The same threads with a caller that may drop the receiver of the
\* session's channel at any moment.
ReceiverLines == {CpLine(1, 50), CpLine(12, 50), MateLine(3, 2)} \cup BestLines

ReceiverInputs == UNION {[1..n -> ReceiverLines] : n \in 1..MaxScanLines}

InitReceiver == InitScanOver(ReceiverInputs)

NextReceiver ==
    \/ NextScan
    \/ drop_receiver(1)

ReceiverSpec == InitReceiver /\ [][NextReceiver]_vars

\* One supervisor from the moment its struct is built to the end of Drop.
InitLife ==
    /\ PlayerIdle
    /\ FenIdle
    /\ LocksIdle
    /\ EngineBuilt

LifeSpec == InitLife /\ [][NextLife]_vars

----------------------------------------------------------------------------
\* Properties of the replay state machine (checked under Spec).

\* The board obtained by applying the first n moves of mvs, in order, to grid.
RECURSIVE ApplyAll(_, _, _)
ApplyAll(grid, mvs, n) ==
    IF n = 0 THEN grid
    ELSE apply_move_to_board(ApplyAll(grid, mvs, n - 1), mvs[n])

\* C1: in every reachable state the player's board is the initial board with
\* moves[0, current_move) applied in order.
C1_BoardIsReplay == board = ApplyAll(ChessBoard_new, moves, current_move)

C1_Witness ==
    /\ lastCall = "previous_move" /\ ret
    /\ moves = GameEpWhite /\ current_move = 5

\* C2: next() at ply N and previous() at ply 0 return false and leave board,
\* ply and move list as they were.
C2_BoundaryNoOps ==
    [][/\ (lastCall' = "next_move" /\ current_move = Len(moves))
            => (ret' = FALSE /\ UNCHANGED <<board, current_move, moves>>)
       /\ (lastCall' = "previous_move" /\ current_move = 0)
            => (ret' = FALSE /\ UNCHANGED <<board, current_move, moves>>)]_vars

C2_Witness ==
    /\ lastCall = "previous_move" /\ ~ret
    /\ current_move = 0 /\ moves = GamePromote

\* C3: from ply 0, next() N times and then previous() N times ends at ply 0
\* with the initial board.
C3_ForwardBackward ==
    (walk.on /\ walk.fwd = Len(moves) /\ walk.bwd = Len(moves))
        => (current_move = 0 /\ board = ChessBoard_new)

C3_Witness ==
    /\ walk.on /\ walk.fwd = Len(moves) /\ walk.bwd = Len(moves)
    /\ moves = GameEpBlack /\ lastCall = "previous_move"

\* The effect the castling claim states, from board b to board b2.
CastleEffect(b, b2, mv) ==
    LET row == 7 - mv.king.rank
        kingside == mv.rook.file > mv.king.file
        king_to == IF kingside THEN 6 ELSE 2
        rook_from == IF kingside THEN 7 ELSE 0
        rook_to == IF kingside THEN 5 ELSE 3
    IN  /\ b[row][4].piece_type = "King"
        /\ b[row][rook_from].piece_type = "Rook"
        /\ b2[row][king_to] = b[row][4]
        /\ b2[row][rook_to] = b[row][rook_from]
        /\ b2[row][4] = NoPiece
        /\ b2[row][rook_from] = NoPiece
        /\ \A r \in 0..7, c \in 0..7 :
              (r # row \/ c \notin {4, king_to, rook_from, rook_to})
                  => b2[r][c] = b[r][c]

\* C6: a Castle move on home rank r moves the king e -> g and the rook
\* h -> f when the rook's file is greater than the king's, otherwise the king
\* e -> c and the rook a -> d, all on rank r, and changes no other cell.
C6_CastleSquares ==
    [][(lastCall' = "next_move" /\ ret' /\ current_move < Len(moves)
            /\ moves[current_move + 1].tag = "Castle")
        => CastleEffect(board, board', moves[current_move + 1])]_vars

C6_Witness ==
    /\ lastCall = "next_move" /\ ret
    /\ moves = GameCastleQueen /\ current_move = 10
    /\ board[0][2] = Piece_new("King", "Black")
    /\ board[0][3] = Piece_new("Rook", "Black")

\* C7: after an EnPassant{from, to} move the cell on the destination file and
\* the source rank (the captured pawn's cell) is empty, the capturing pawn
\* stands on the destination square and the source square is empty.
C7_EnPassantRemoves ==
    (lastCall = "next_move" /\ ret /\ moves[current_move].tag = "EnPassant")
        => LET mv == moves[current_move]
           IN  /\ board[7 - mv.from.rank][mv.to.file] = NoPiece
               /\ board[7 - mv.to.rank][mv.to.file].piece_type = "Pawn"
               /\ board[7 - mv.from.rank][mv.from.file] = NoPiece

----------------------------------------------------------------------------
\* Properties of the position translator (checked under FenSpec).

StartFen == "rnbqkbnr/pppppppp/8/8/8/8/PPPPPPPP/RNBQKBNR w KQkq - 0 1"

\* C4: for a game with at least one move, pgn_to_fen_at_move(pgn, 0) returns
\* the standard initial position string.
C4_PlyZeroIsInitial ==
    (fen_pc = "done" /\ fen_pgn.outcome = "game" /\ Len(fen_pgn.moves) >= 1
        /\ fen_move_number = 0)
        => fen_result = Some(StartFen)

\* C5 as stated: for "1. e4 e5 2. Nf3", ply 1 gives the position after 1.e4,
\* Black to move, with e3 in the en-passant field.
C5_EpFieldE3 ==
    (fen_pc = "done" /\ fen_pgn.moves = GameOpen /\ fen_move_number = 1)
        => fen_result = Some("rnbqkbnr/pppppppp/8/8/4P3/8/PPPP1PPP/RNBQKBNR b KQkq e3 0 1")

\* C5 amended: for "1. e4 e5 2. Nf3", ply 1 gives the position after 1.e4,
\* Black to move, with "-" in the en-passant field, because no black pawn
\* can capture on e3.
C5_EpFieldLegalOnly ==
    (fen_pc = "done" /\ fen_pgn.moves = GameOpen /\ fen_move_number = 1)
        => fen_result = Some("rnbqkbnr/pppppppp/8/8/4P3/8/PPPP1PPP/RNBQKBNR b KQkq - 0 1")

C5_Witness ==
    /\ fen_pc = "done" /\ fen_pgn.moves = GameOpen /\ fen_move_number = 1
    /\ fen_result # None
    /\ fv.move_count = 3

----------------------------------------------------------------------------
\* Properties of the search session (checked under EngineSpec and
\* EngineFairSpec).

SentFinal(s) == \E i \in 1..Len(chan[s]) : chan[s][i].is_final

\* C8: after cancel() on a running session, nothing is published on its
\* channel except at most one update whose scan was complete when cancel()
\* was invoked.
C8_NoPublishAfterCancel == \A s \in Sessions : obs[s].pubs <= obs[s].inflight

\* C9: after cancel() the session's polling thread ends after at most two
\* further polls.
C9_EndsWithinTwoPolls == \A s \in Sessions : obs[s].polls <= 2

\* C10: a session that is never cancelled, whose receiver stays alive and
\* whose search the engine answers with a bestmove line carrying a move,
\* eventually publishes a final update and its thread ends. Stated on the
\* states in which nothing more can reach the thread unless the caller makes
\* another call: there the final update must have been published.
\* The session has nothing left to wait for: no call is under way, the
\* subprocess is idle with nothing unread, and the thread has scanned every
\* line of the buffer.
Settled(s) ==
    /\ fg.pc = "idle" /\ stdin = <<>> /\ pipe = <<>> /\ engine.searching = 0
    /\ task[s].pc \in {"loop", "sleep", "done"}
    /\ task[s].pc # "done" => new_lines_of(output_buffer, task[s].processed_lines) = <<>>

C10_FinalOnceSettled ==
    \A s \in Sessions :
        (obs[s].answered /\ rx_alive[s] /\ ~obs[s].cancelled /\ Settled(s))
            => (SentFinal(s) /\ task[s].pc = "done")

\* C11: at any time at most one polling thread is active, whatever calls of
\* find_best_move and cancel_search the caller makes.
C11_OnePollingTask == Cardinality({s \in Sessions : Running(s)}) <= 1

----------------------------------------------------------------------------
\* Properties of the supervisor's lifetime (checked under LifeSpec).

LineIds(result) == {result[i].id : i \in 1..Len(result)}

\* C12: wait_for_response never redelivers a line: every line the reader
\* appended is in the result of at most one call, and the lines of a later
\* call were all written after the lines of every earlier call (the reader
\* appends in the order written).
C12_NoRedelivery ==
    /\ \A i \in 1..Len(delivered) :
        \A a, b \in 1..Len(delivered[i]) :
            a < b => delivered[i][a].id < delivered[i][b].id
    /\ \A i, j \in 1..Len(delivered) :
        i < j => \A x \in LineIds(delivered[i]), y \in LineIds(delivered[j]) : x < y

C12_Witness ==
    /\ life.pc # "ready"
    /\ Len(delivered) >= 2
    /\ \A i \in 1..Len(delivered) : delivered[i] # <<>>

DropPcs == {"drop_flag", "drop_quit", "drop_join", "drop_kill"}

\* C13: shutdown always terminates: when the subprocess neither exits nor
\* writes any more, a step of Drop or of the reader thread it waits for can
\* still be taken, until Drop has returned.
C13_ShutdownNotBlocked ==
    (life.pc \in DropPcs /\ process.state = "hung")
        => ENABLED (DropStep \/ reader_push \/ reader_eof)

TeardownOrder == <<"stop_flag", "quit", "join", "kill">>

IsPrefix(a, b) == Len(a) <= Len(b) /\ a = SubSeq(b, 1, Len(a))

Performed(step) == \E i \in 1..Len(life.teardown) : life.teardown[i] = step

\* C14: on every exit path, a handshake step that fails included, the
\* teardown runs, and its steps come in the order stop flag, quit, join,
\* kill: a failed construction is in Drop or through it, the steps performed
\* so far are a prefix of the order, and a finished Drop performed them all.
C14_TeardownOrder ==
    /\ IsPrefix(life.teardown, TeardownOrder)
    /\ life.result = "err" => life.pc \in DropPcs \cup {"dropped"}
    /\ life.pc = "dropped" => life.teardown = TeardownOrder
    /\ Performed("stop_flag") <=> ~running
    /\ Performed("join") => reader_thread = "exited"
    /\ Performed("kill") => process.state \in {"killed", "exited"}

C14_Witness ==
    /\ life.pc = "dropped"
    /\ life.result = "err"
    /\ process.state = "killed"

\* The handshake as the claim words it.
ExpectedOrder ==
    <<"uci", "wait uciok", "option Threads", "option Hash", "option MultiPV",
      "ucinewgame", "isready", "wait readyok", "position", "isready", "wait readyok">>

step_kind(e) ==
    IF e.op = "wait" THEN "wait " \o e.arg
    ELSE IF contains(e.arg, "setoption name ")
    THEN "option " \o split_whitespace(e.arg)[3]
    ELSE IF contains(e.arg, "position ") THEN "position"
    ELSE e.arg

\* The log without the quit of Drop.
handshake_log ==
    IF life.log # <<>> /\ life.log[Len(life.log)] = SendStep("quit")
    THEN SubSeq(life.log, 1, Len(life.log) - 1)
    ELSE life.log

\* C15: the handshake commands are sent in the order uci, (wait uciok), the
\* three options, ucinewgame, isready, (wait readyok), position, isready,
\* (wait readyok), each wait completed before the next command; a
\* successful start went through all of it, and after a failed wait or send
\* nothing more of it is sent.
C15_HandshakeOrder ==
    LET kinds == [k \in 1..Len(handshake_log) |-> step_kind(handshake_log[k])]
    IN  /\ IsPrefix(kinds, ExpectedOrder)
        /\ life.result = "ok" => kinds = ExpectedOrder
        /\ life.result = "err" => Len(kinds) < Len(ExpectedOrder)
        /\ life.result = "none" => life.log = handshake_log

C15_Witness ==
    /\ life.result = "ok"
    /\ life.pc = "dropped"

----------------------------------------------------------------------------
\* Properties of the scan of engine lines (checked under ScanSpec).

\* The lines of the run, read or not.
run_lines == output_buffer \o pipe

\* Every line of the run is a progress line with the raw score cp sc.
AllCp(sc) ==
    \A i \in 1..Len(run_lines) : \E d \in {1, 12} : run_lines[i].text = CpLine(d, sc)

\* The f32 v is the integer n.
F32Is(v, n) == n % Pow2(v.exp) = 0 /\ n \div Pow2(v.exp) = v.mant

\* Every update published in a run of cp sc lines has the evaluation sc for
\* White to move and -sc for Black to move, and one is published once the
\* lines are scanned.
CpSign(sc) ==
    AllCp(sc) =>
        /\ \A i \in 1..Len(chan[1]) :
            /\ chan[1][i].evaluation # None
            /\ F32Is(chan[1][i].evaluation[1],
                     IF task[1].is_white_move THEN sc ELSE 0 - sc)
        /\ (pipe = <<>> /\ task[1].pc = "loop"
                /\ task[1].processed_lines = Len(output_buffer)) => chan[1] # <<>>

----------------------------------------------------------------------------
\* Further properties of pgn_to_fen_at_move (checked under FenSpec).

\* The call has returned for a game and a ply of that game.
FenDoneInRange ==
    /\ fen_pc = "done"
    /\ fen_pgn.outcome = "game"
    /\ fen_move_number <= Len(fen_pgn.moves)

\* The k-th field of the string returned.
fen_field(k) == split_whitespace(fen_result[1])[k]

\* C17: for every ply from 0 to N the side-to-move field of the position
\* string is White ("w") when the ply is even and Black ("b") when it is odd.
C17_SideToMoveByParity ==
    FenDoneInRange =>
        /\ fen_result # None
        /\ fen_field(2) = (IF fen_move_number % 2 = 0 THEN "w" ELSE "b")

\* The board of a player loaded with the game after ply calls of next_move,
\* rank 1 first as the position string's formatter takes it.
replayed_board(pgn, ply) ==
    LET grid == next_times(load_pgn(ChessGamePlayer_new, pgn).p, ply).board
    IN  [r \in Ranks |-> [f \in Files |-> grid[7 - r][f]]]

\* C18: for every game and every ply from 0 to N the piece placement of the
\* position string is the board of a player loaded with the same game after
\* ply calls of next_move.
C18_PlacementIsReplayBoard ==
    FenDoneInRange =>
        /\ fen_result # None
        /\ fen_field(1) = board_fen(replayed_board(fen_pgn, fen_move_number))

----------------------------------------------------------------------------
\* Further properties of the replay state machine (checked under Spec).

\* C19: in every reachable state 0 <= current_move <= N, N being the length
\* of the move list loaded, also right after a shorter game was loaded.
C19_PlyInRange == 0 <= current_move /\ current_move <= Len(moves)

C19_Witness ==
    /\ lastCall = "load_pgn"
    /\ ret = TRUE
    /\ Len(moves) = 1
    /\ current_move = 0

\* C20: in every reachable board every cell's piece has kind None exactly
\* when it has colour None.
C20_KindNoneIffColourNone ==
    \A r \in Ranks, c \in Files :
        board[r][c].piece_type = "None" <=> board[r][c].colour = "None"

C20_Witness ==
    /\ current_move = Len(moves)
    /\ \E i \in 1..Len(moves) : moves[i].tag = "EnPassant"
    /\ board # ChessBoard_new

\* C25: next() returns true exactly when current_move < N held before, and
\* then the ply grows by one and the board is the board before with
\* moves[old ply] applied; previous() returns true exactly when
\* current_move > 0 held before, and then the ply shrinks by one and the
\* board is the initial board with moves[0, new ply) applied.
C25_NextPreviousEffect ==
    [][/\ lastCall' = "next_move" =>
            /\ ret' = (current_move < Len(moves))
            /\ ret' => /\ current_move' = current_move + 1
                       /\ board' = apply_move_to_board(board, moves[current_move + 1])
                       /\ moves' = moves
       /\ lastCall' = "previous_move" =>
            /\ ret' = (current_move > 0)
            /\ ret' => /\ current_move' = current_move - 1
                       /\ board' = ApplyAll(ChessBoard_new, moves, current_move - 1)
                       /\ moves' = moves]_vars

C25_Witness ==
    /\ lastCall = "previous_move" /\ ret
    /\ moves = GameCastleQueen /\ current_move = Len(moves) - 1

\* C26: after go_to_end, from whatever state it was called in, the ply is N
\* and the board is the initial board with all N moves applied.
C26_GoToEnd ==
    lastCall = "go_to_end" =>
        /\ current_move = Len(moves)
        /\ board = ApplyAll(ChessBoard_new, moves, Len(moves))

C26_Witness ==
    /\ lastCall = "go_to_end"
    /\ moves = GameEpBlack

\* C27: a load that succeeds replaces moves and headers by those of the
\* game read and resets the ply to 0 and the board to the initial one; a
\* load that fails (no game, read error) returns false and leaves moves,
\* headers, ply and board as they were.
C27_LoadEffect ==
    [][lastCall' = "load_pgn" =>
        \E pgn \in PgnInputs :
            \/ /\ pgn.outcome = "game"
               /\ ret' = TRUE
               /\ moves' = pgn.moves /\ headers' = pgn.headers
               /\ current_move' = 0 /\ board' = ChessBoard_new
            \/ /\ pgn.outcome # "game"
               /\ ret' = FALSE
               /\ UNCHANGED <<moves, headers, current_move, board>>]_vars

C27_Witness ==
    /\ lastCall = "load_pgn" /\ ~ret
    /\ current_move > 0

\* The cell of a square in the grid.
cell_of(grid, sq) == grid[7 - sq.rank][sq.file]

\* C28: a Normal move puts the piece of the source cell on the destination
\* cell and empties the source cell; with a promotion the destination piece
\* has the promotion kind and the colour the moving piece had; every other
\* cell is unchanged.
C28_NormalMoveEffect ==
    [][(lastCall' = "next_move" /\ ret' /\ moves[current_move + 1].tag = "Normal") =>
        LET mv == moves[current_move + 1]
            moved == cell_of(board, mv.from)
        IN  /\ cell_of(board', mv.to) =
                    IF mv.promotion = "None" THEN moved
                    ELSE [piece_type |-> mv.promotion, colour |-> moved.colour]
            /\ cell_of(board', mv.from) = [piece_type |-> "None", colour |-> "None"]
            /\ \A r \in Ranks, c \in Files :
                (<<r, c>> \notin {<<7 - mv.from.rank, mv.from.file>>,
                                  <<7 - mv.to.rank, mv.to.file>>})
                    => board'[r][c] = board[r][c]]_vars

C28_Witness ==
    /\ lastCall = "next_move" /\ ret
    /\ moves = GamePromote /\ current_move = 9
    /\ moves[current_move].tag = "Normal" /\ moves[current_move].promotion # "None"

\* ---- Further properties of the search session

\* C29: at a session start the buffer is cleared and the snapshot reset
\* before the search command is written, so the session-start clear removes
\* no line the engine wrote in answer to that search command: the step that
\* clears the buffer for session s finds no line of search s in it (which
\* it could only find if the go command had been written before the clear).
C29_ClearBeforeGo ==
    [][(fg.pc = "fbm_clear" /\ fg'.pc = "idle") =>
            \A i \in 1..Len(output_buffer) : output_buffer[i].go # fg.s]_vars

\* C30: a non-final update is published only if its move or its evaluation
\* differs from the last published one, or its depth is not the depth of the
\* previous published update; a progress line identical to the one behind
\* the last published update produces no new event. So no non-final update
\* on the channel repeats the move, evaluation and depth of the update
\* published just before it.
C30_NoRepeatedUpdate ==
    \A s \in Sessions : \A i \in 2..Len(chan[s]) :
        ~chan[s][i].is_final =>
            \/ chan[s][i].best_move # chan[s][i - 1].best_move
            \/ chan[s][i].evaluation # chan[s][i - 1].evaluation
            \/ chan[s][i].depth # chan[s][i - 1].depth

\* C24: with the receiver dropped, the first publish attempt of the polling
\* thread fails and the thread ends at once, without an error: the attempt
\* puts nothing on the channel and leaves the thread finished, and a
\* finished thread publishes nothing more and writes the snapshot no more.
C24_SendFailureEndsTask ==
    [][\A s \in Sessions :
        /\ (/\ task[s].pc = "publish" /\ should_send(task[s]) /\ ~rx_alive[s]
            /\ task'[s] # task[s]) =>
                (task'[s].pc = "done" /\ chan' = chan)
        /\ (task[s].pc = "done" /\ ~rx_alive[s]) =>
                /\ task'[s] = task[s]
                /\ UNCHANGED <<chan, current_best_move, current_evaluation>>]_vars

\* The thread ended on a failed attempt: the snapshot was written (lines
\* 291-296 come before the send) and the channel got nothing.
C24_Witness ==
    /\ ~rx_alive[1]
    /\ task[1].pc = "done"
    /\ chan[1] = <<>>
    /\ current_best_move # None
    /\ Len(output_buffer) > task[1].processed_lines

\* The lines of a sequence are consecutive lines of the subprocess's output,
\* in the order written.
Consecutive(lines) ==
    \A i \in 1..Len(lines) - 1 : lines[i + 1].id = lines[i].id + 1

----------------------------------------------------------------------------
\* Properties of the locking (checked under LockSpec).

\* The command texts a thread has written, in the order received.
RECURSIVE commands_received(_, _)
commands_received(w, t) ==
    IF w = <<>> THEN <<>>
    ELSE IF Head(w).by = t /\ Head(w).text # "\n"
         THEN <<Head(w).text>> \o commands_received(Tail(w), t)
         ELSE commands_received(Tail(w), t)

\* C21: command writes are serialized. With several threads in send_command
\* at once, every command reaches the subprocess whole: what the
\* subprocess receives is a sequence of commands each followed at once by
\* its own newline, with no write of another command in between; and the
\* commands one caller issues one after the other are received in the order
\* of its calls.
C21_CommandsWholeAndInOrder ==
    /\ \A i \in 1..Len(wire) :
        IF i % 2 = 1
        THEN wire[i].text # "\n"
        ELSE wire[i].text = "\n" /\ wire[i].by = wire[i - 1].by
    /\ \A t \in Threads :
        IsPrefix(commands_received(wire, t), thread[t].issued)

\* Both callers are in send_command: one holds the writer lock with its
\* command half written, the other waits for the lock.
C21_Witness ==
    /\ mutex["writer"] = "caller2"
    /\ Len(wire) % 2 = 1
    /\ Ready("caller1", "lock")
    /\ next_step("caller1").arg = "writer"
    /\ \E i \in 1..Len(wire) : wire[i].by = "caller1"

\* The locks a thread holds.
Held(t) == {m \in Mutexes : mutex[m] = t}

\* C38: no deadlock among the reader, the callers and the polling thread: a
\* thread that waits for one of the five locks holds none of them, a thread
\* that holds a lock can always take its next step, and as long as some
\* thread has steps left some step can be taken.
C38_NoNestedLocks ==
    /\ \A t \in Threads : Ready(t, "lock") => Held(t) = {}
    /\ \A t \in Threads : Held(t) # {} => ENABLED ThreadStep(t)
    /\ (\E t \in Threads : thread[t].prog # <<>>) => ENABLED NextLock

\* The reader waits for the buffer, which the polling thread holds, while
\* the callers hold the writer and the running flag.
C38_Witness ==
    /\ Ready("reader", "lock")
    /\ next_step("reader").arg = "output_buffer"
    /\ mutex["output_buffer"] = "poller"
    /\ mutex["writer"] = "caller1"
    /\ mutex["running"] = "caller2"

SleepFreeMutexes == {"output_buffer", "current_best_move", "current_evaluation"}

\* C23: no thread sleeps (the 10 ms of wait_for_response, the 100 ms of the
\* polling thread) while it holds the lock of the output buffer or of the
\* best-move or evaluation snapshot.
C23_NoSleepUnderLock ==
    \A t \in Threads :
        thread[t].asleep => \A m \in SleepFreeMutexes : mutex[m] # t

\* A caller sleeps in wait_for_response and the polling thread sleeps while
\* the reader holds the buffer.
C23_Witness ==
    /\ thread["caller2"].asleep
    /\ thread["poller"].asleep
    /\ mutex["output_buffer"] = "reader"

----------------------------------------------------------------------------
\* Properties of the scan on lines of every kind (checked under ParseSpec).

\* C31: a session publishes at most one final update, and after it the
\* session's thread publishes nothing more and writes the snapshot no more:
\* a final update is the last one of its channel, and once it is there the
\* channel, the thread and the snapshot stay as they are.
C31_FinalIsLast ==
    /\ [](\A s \in Sessions : \A i \in 1..Len(chan[s]) :
            chan[s][i].is_final => i = Len(chan[s]))
    /\ [][SentFinal(1) =>
            /\ task'[1] = task[1]
            /\ UNCHANGED <<chan, current_best_move, current_evaluation>>]_vars

\* The final update was published and the reader went on appending.
C31_Witness ==
    /\ SentFinal(1)
    /\ task[1].pc = "done"
    /\ Len(output_buffer) > task[1].processed_lines

\* C32: a bestmove line that carries "(none)" is still final: once the
\* thread has scanned it, a final update without a move is published and
\* the thread ends. Stated for a search whose first line is that line.
C32_NoneIsFinal ==
    (/\ output_buffer # <<>>
     /\ output_buffer[1].text = NoneLine
     /\ task[1].processed_lines >= 1
     /\ task[1].pc # "publish")
        => /\ task[1].pc = "done"
           /\ Len(chan[1]) = 1
           /\ chan[1][1].is_final
           /\ chan[1][1].best_move = None

\* The line is a progress line whose score or whose move does not parse.
Unparsable(line) ==
    /\ is_progress_line(line)
    /\ \/ parse_score(poll_locals, line, TRUE).current_eval = None
       \/ parse_pv(poll_locals, line).current_move = None

\* C33: a progress line whose score or move cannot be parsed is skipped: in
\* a search that writes such lines only, no update is published and the
\* snapshot stays unset.
C33_UnparsableSkipped ==
    (\A i \in 1..Len(run_lines) : Unparsable(run_lines[i].text))
        => /\ chan[1] = <<>>
           /\ current_best_move = None
           /\ current_evaluation = None

\* Every line of the run is a progress line with the score mate m.
AllMate(m) ==
    \A i \in 1..Len(run_lines) : run_lines[i].text = MateLine(3, m)

\* C34: a progress line with score mate m is published with the evaluation
\* +1000 when m > 0 and White is to move or m <= 0 and Black is to move, and
\* -1000 otherwise; one is published once the lines are scanned.
C34_MateIsThousand ==
    \A m \in MateInputs :
        AllMate(m) =>
            /\ \A i \in 1..Len(chan[1]) :
                chan[1][i].evaluation =
                    Some(IF (m > 0) = task[1].is_white_move
                         THEN f32(1000, 0) ELSE f32(0 - 1000, 0))
            /\ (pipe = <<>> /\ task[1].pc = "loop"
                    /\ task[1].processed_lines = Len(output_buffer)) => chan[1] # <<>>

C34_Witness ==
    /\ AllMate(0)
    /\ ~task[1].is_white_move
    /\ chan[1] # <<>>
    /\ chan[1][1].evaluation = Some(f32(1000, 0))

----------------------------------------------------------------------------
\* A further property of the supervisor's lifetime (checked under LifeSpec).

\* C37: a wait_for_response that times out returns the error and neither
\* drains nor changes the buffer; the reader, the writer and every other
\* part of the supervisor are as before the call, so that what is called
\* next finds the supervisor with the same buffered lines.
C37_TimeoutLeavesSupervisor ==
    [][(life.pc = "wait" /\ life'.pc # "wait" /\ life'.pc # "drain") =>
        /\ life'.result = "err"
        /\ UNCHANGED <<engineVars, running, reader_thread, process, delivered>>]_vars

\* A wait has timed out with lines in the buffer.
C37_Witness ==
    /\ life.result = "err"
    /\ life.step <= Len(Handshake)
    /\ Handshake[life.step].op = "wait"
    /\ life.pc = "drop_flag"
    /\ output_buffer # <<>>
    /\ reader_thread = "reading"

----------------------------------------------------------------------------
\* Further properties of the sessions (checked under EngineSpec).

\* The lines of a batch the scan reads: all up to the first bestmove line.
RECURSIVE scanned_of(_)
scanned_of(lines) ==
    IF lines = <<>> THEN <<>>
    ELSE IF contains(Head(lines).text, "bestmove") THEN <<Head(lines)>>
    ELSE <<Head(lines)>> \o scanned_of(Tail(lines))

\* C36: session isolation: an update delivered on a session's channel was
\* parsed from lines the engine wrote in answer to that session's own go
\* command: whenever the thread of session s ends a scan with an update to
\* publish, every line it read in that scan belongs to search s.
C36_SessionIsolation ==
    [][\A s \in Sessions :
        (task[s].pc = "sleep" /\ task'[s].pc = "publish") =>
            LET read == scanned_of(new_lines_of(output_buffer, task[s].processed_lines))
            IN  \A i \in 1..Len(read) : read[i].go = s]_vars

----------------------------------------------------------------------------
\* A property of the cursor (checked under CursorSpec).

\* C35: every line the reader appends is scanned exactly once and in the
\* order appended, also when the buffer is drained or cleared in between:
\* at every poll, the batch that is scanned holds every buffered line that
\* was not scanned before, and no line that was.
C35_EveryLineScannedOnce ==
    [][\A s \in Sessions :
        (task[s].pc = "sleep" /\ task'[s] # task[s]) =>
            LET new_lines == new_lines_of(output_buffer, task[s].processed_lines)
                first == Len(output_buffer) - Len(new_lines) + 1
            IN  \A i \in 1..Len(output_buffer) :
                    (output_buffer[i].id > obs[s].scanned) = (i >= first)]_vars

====
